---------------------------- MODULE Spec2Model ----------------------------
(***************************************************************************)
(* Session ingestion and hybrid indexing engine of claude-log-converter:   *)
(* the JSONL parser (app/services/log_parser.py), the SQLite index         *)
(* (app/services/session_db.py) and the sync orchestrator                  *)
(* (app/services/session_indexer.py).                                      *)
(*                                                                         *)
(* Python values are modelled as follows.  None is the empty tuple and an  *)
(* Optional value x is the 1-tuple <<x>>.  A dict is a set of <<key,       *)
(* value>> pairs.  A datetime is a natural number of seconds.  The text    *)
(* produced by datetime.isoformat() is <<"iso", t>> and the text produced  *)
(* by json.dumps(v) is <<"json", v>>; an SQL NULL is the empty tuple.      *)
(***************************************************************************)
EXTENDS Integers, Sequences, FiniteSets, TLC

None == <<>>
Some(x) == <<x>>
Val(o) == o[1]

\* An assignment to a local variable: F at the value of v, with v evaluated
\* once.
Bind(v, F(_)) == CHOOSE y \in {F(x) : x \in {v}} : TRUE

\* Python truthiness of an Optional[str]: None and "" are falsy.
TruthyStr(o) == o # None /\ Val(o) # ""
\* Python truthiness of an Optional[dict]: None and {} are falsy.
TruthyDict(o) == o # None /\ Val(o) # {}

(***************************************************************************)
(* Bounds of the model.                                                    *)
(***************************************************************************)
\* Lines appended to all Source Files together.
MaxAppends == 2

\* Lists the TTLCache of the file scan holds at a time.
MaxCached == 1

\* Resolution of st_mtime below one second: a modification time is kept in
\* ticks, and int(st_mtime) keeps the whole seconds.
TicksPerSec == 2

(***************************************************************************)
(* Source Files.  A path is <<project directory name, file stem>>; the     *)
(* file is <project dir>/<stem>.jsonl under settings.claude_projects_dir.  *)
(***************************************************************************)
\* An encoded project directory name is its text split at "-": "-proj" is
\* [lead |-> TRUE, segs |-> <<"proj">>], lead telling that it starts with "-".
ProjDir == [lead |-> TRUE, segs |-> <<"proj">>]
FileA == <<ProjDir, "a">>
FileB == <<ProjDir, "b">>
Paths == {FileA, FileB}

\* "-my-app", the directory of the project /my-app, and ".hid", a directory
\* whose name begins with ".".
DashDir == [lead |-> TRUE, segs |-> <<"my", "app">>]
HiddenDir == [lead |-> FALSE, segs |-> <<".hid">>]
FileD == <<DashDir, "ab">>
FileH == <<HiddenDir, "h">>
AllPaths == Paths \cup {FileD, FileH}

\* Directories that exist on disk besides the projects root, each a sequence
\* of path components, a component being its "-"-separated pieces: /proj and
\* /my-app.
DiskDirs == { << <<"proj">> >>, << <<"my", "app">> >> }

Stem(path) == path[2]
DirName(path) == path[1]

\* project_dir.name.startswith(".")
StartsWithDot(encoded_name) == ~encoded_name.lead /\ encoded_name.segs[1] = ".hid"

\* "session_id in jsonl_file.stem": the text is part of the stem.
InStem(session_id, stem) ==
  session_id = stem \/ (stem = "ab" /\ session_id \in {"a", "b"})

(***************************************************************************)
(* Raw lines of a Source File.  Each kind of line stands for one line of   *)
(* text; "json" tells what json.loads makes of it.                         *)
(***************************************************************************)
LineKinds == {"user", "tool", "edit", "poison"}

RawLine(kind) ==
  CASE kind = "user" ->
         \* {"type":"user","sessionId":"s1","timestamp":"..01Z",
         \*  "message":{"role":"user","content":"fix it"}}
         [json |-> "object", type |-> "user", sessionId |-> Some("s1"),
          cwd |-> Some("/w"), gitBranch |-> None, timestamp |-> Some(1),
          role |-> "user", text |-> Some("fix it"), blocks |-> <<>>]
    [] kind = "tool" ->
         \* an assistant record without sessionId whose only block is a
         \* tool_use with an empty input: {"type":"tool_use","name":"TodoRead",
         \* "id":"t1","input":{}}
         [json |-> "object", type |-> "assistant", sessionId |-> None,
          cwd |-> None, gitBranch |-> None, timestamp |-> Some(3),
          role |-> "assistant", text |-> None,
          blocks |-> << [type |-> "tool_use", name |-> "TodoRead", id |-> "t1",
                         input |-> {}, text |-> ""] >>]
    [] kind = "edit" ->
         \* an assistant record with a thinking block, a text block and an
         \* Edit tool_use with input {"file_path": "parser.py"}
         [json |-> "object", type |-> "assistant", sessionId |-> Some("s1"),
          cwd |-> None, gitBranch |-> Some("main"), timestamp |-> Some(2),
          role |-> "assistant", text |-> None,
          blocks |-> << [type |-> "thinking", name |-> "", id |-> "",
                         input |-> {}, text |-> "hm"],
                        [type |-> "text", name |-> "", id |-> "",
                         input |-> {}, text |-> "ok"],
                        [type |-> "tool_use", name |-> "Edit", id |-> "t2",
                         input |-> {<<"file_path", "parser.py">>},
                         text |-> ""] >>]
    [] kind = "queue" ->
         \* {"type":"queue-operation","operation":"enqueue","sessionId":"s1",
         \*  "timestamp":"..00Z"}: a record without message
         [json |-> "object", type |-> "queue-operation", sessionId |-> Some("s1"),
          cwd |-> None, gitBranch |-> None, timestamp |-> Some(0),
          role |-> "", text |-> None, blocks |-> <<>>]
    [] kind = "read" ->
         \* an assistant record whose only block is a Read tool_use
         [json |-> "object", type |-> "assistant", sessionId |-> Some("s1"),
          cwd |-> None, gitBranch |-> None, timestamp |-> Some(2),
          role |-> "assistant", text |-> None,
          blocks |-> << [type |-> "tool_use", name |-> "Read", id |-> "t3",
                         input |-> {<<"file_path", "a.py">>}, text |-> ""] >>]
    [] kind = "bash" ->
         \* an assistant record whose only block is a Bash tool_use
         [json |-> "object", type |-> "assistant", sessionId |-> Some("s1"),
          cwd |-> None, gitBranch |-> None, timestamp |-> Some(2),
          role |-> "assistant", text |-> None,
          blocks |-> << [type |-> "tool_use", name |-> "Bash", id |-> "t4",
                         input |-> {<<"command", "cat b.py">>}, text |-> ""] >>]
    [] kind = "glob" ->
         \* an assistant record with a Glob and a Grep tool_use
         [json |-> "object", type |-> "assistant", sessionId |-> Some("s1"),
          cwd |-> None, gitBranch |-> None, timestamp |-> Some(2),
          role |-> "assistant", text |-> None,
          blocks |-> << [type |-> "tool_use", name |-> "Glob", id |-> "t5",
                         input |-> {<<"pattern", "*.py">>}, text |-> ""],
                        [type |-> "tool_use", name |-> "Grep", id |-> "t6",
                         input |-> {<<"pattern", "TODO">>}, text |-> ""] >>]
    [] kind = "write" ->
         \* an assistant record whose only block is a Write tool_use on a file
         \* whose relative path begins with "["
         [json |-> "object", type |-> "assistant", sessionId |-> Some("s1"),
          cwd |-> None, gitBranch |-> None, timestamp |-> Some(3),
          role |-> "assistant", text |-> None,
          blocks |-> << [type |-> "tool_use", name |-> "Write", id |-> "t7",
                         input |-> {<<"file_path", "[id].tsx">>}, text |-> ""] >>]
    [] kind = "lets" ->
         [json |-> "object", type |-> "user", sessionId |-> Some("s1"),
          cwd |-> None, gitBranch |-> None, timestamp |-> Some(1),
          role |-> "user", text |-> Some("Let's fix the bug in parser.py"),
          blocks |-> <<>>]
    [] kind = "ill" ->
         \* an assistant record with a text block and an Edit tool_use
         [json |-> "object", type |-> "assistant", sessionId |-> Some("s1"),
          cwd |-> None, gitBranch |-> None, timestamp |-> Some(2),
          role |-> "assistant", text |-> None,
          blocks |-> << [type |-> "text", name |-> "", id |-> "",
                         input |-> {}, text |-> "I'll update parser.py"],
                        [type |-> "tool_use", name |-> "Edit", id |-> "t2",
                         input |-> {<<"file_path", "parser.py">>},
                         text |-> ""] >>]
    [] kind = "result" ->
         \* a user record whose content is the list of one tool_result
         [json |-> "object", type |-> "user", sessionId |-> Some("s1"),
          cwd |-> None, gitBranch |-> None, timestamp |-> Some(3),
          role |-> "user", text |-> None,
          blocks |-> << [type |-> "tool_result", name |-> "", id |-> "t2",
                         input |-> {}, text |-> "done"] >>]
    [] kind = "plan" ->
         [json |-> "object", type |-> "assistant", sessionId |-> Some("s1"),
          cwd |-> None, gitBranch |-> None, timestamp |-> Some(2),
          role |-> "assistant", text |-> None,
          blocks |-> << [type |-> "text", name |-> "", id |-> "",
                         input |-> {},
                         text |-> "I'll update the parser module now."] >>]
    [] kind = "garbage" ->
         \* a line json.loads rejects (for example a record cut short)
         [json |-> "invalid", type |-> "", sessionId |-> None,
          cwd |-> None, gitBranch |-> None, timestamp |-> None,
          role |-> "", text |-> None, blocks |-> <<>>]
    [] OTHER ->
         \* "poison": valid JSON that is not an object (for example 42)
         [json |-> "nonobject", type |-> "", sessionId |-> None,
          cwd |-> None, gitBranch |-> None, timestamp |-> None,
          role |-> "", text |-> None, blocks |-> <<>>]

\* parse_jsonl_file: the entries json.loads returns, invalid lines skipped.
parse_jsonl_file(content) ==
  SelectSeq(content, LAMBDA k : RawLine(k).json # "invalid")


(***************************************************************************)
(* log_parser.py                                                           *)
(***************************************************************************)
\* parse_timestamp: None for a missing or unparsable timestamp.
parse_timestamp(ts) == ts

\* dict.get(key) on a dict modelled as a set of <<key, value>> pairs.
HasKey(d, k) == \E kv \in d : kv[1] = k
DictGet(d, k) == (CHOOSE kv \in d : kv[1] = k)[2]

\* re.findall(r"[/\w.-]+\.[a-zA-Z]{1,10}", cmd) on the modelled commands.
PathPatterns(cmd) == IF cmd = "cat b.py" THEN <<"b.py">> ELSE <<>>

\* f"[pattern: {p}]" and f"[search: {p}]" on the modelled patterns.
PatternMarker(pattern) == IF pattern = "*.py" THEN "[pattern: *.py]" ELSE "[pattern]"
SearchMarker(pattern) == IF pattern = "TODO" THEN "[search: TODO]" ELSE "[search]"

\* extract_files_from_tool_use: Read, Write and Edit give their file_path,
\* Bash the path-like words of its command, Glob and Grep a marker of their
\* pattern; another tool gives none.
extract_files_from_tool_use(name, input) ==
  CASE name \in {"Read", "Write", "Edit"} ->
         IF HasKey(input, "file_path") THEN <<DictGet(input, "file_path")>>
         ELSE <<>>
    [] name = "Bash" ->
         IF HasKey(input, "command") THEN PathPatterns(DictGet(input, "command"))
         ELSE <<>>
    [] name = "Glob" ->
         IF HasKey(input, "pattern") THEN <<PatternMarker(DictGet(input, "pattern"))>>
         ELSE <<>>
    [] name = "Grep" ->
         IF HasKey(input, "pattern") THEN <<SearchMarker(DictGet(input, "pattern"))>>
         ELSE <<>>
    [] OTHER -> <<>>

Range(seq) == {seq[i] : i \in DOMAIN seq}

\* xs[:n]
Take(xs, n) == SubSeq(xs, 1, IF Len(xs) < n THEN Len(xs) ELSE n)

\* detect_phases_and_plans on the texts of the modelled lines: none of them
\* holds a numbered list or a checkbox.
detect_phases_and_plans(text) == <<>>

\* The characters of the texts of the modelled lines.
Chars(text) ==
  CASE text = "ok" ->
         <<"o", "k">>
    [] text = "hm" ->
         <<"h", "m">>
    [] text = "fix it" ->
         <<"f", "i", "x", " ", "i", "t">>
    [] text = "done" ->
         <<"d", "o", "n", "e">>
    [] text = "Let's fix the bug in parser.py" ->
         <<"L", "e", "t", "'", "s", " ", "f", "i", "x", " ", "t", "h", "e", " ", "b", "u", "g", " ", "i", "n", " ", "p", "a", "r", "s", "e", "r", ".", "p", "y">>
    [] text = "I'll update parser.py" ->
         <<"I", "'", "l", "l", " ", "u", "p", "d", "a", "t", "e", " ", "p", "a", "r", "s", "e", "r", ".", "p", "y">>
    [] text = "I'll update the parser module now." ->
         <<"I", "'", "l", "l", " ", "u", "p", "d", "a", "t", "e", " ", "t", "h", "e", " ", "p", "a", "r", "s", "e", "r", " ", "m", "o", "d", "u", "l", "e", " ", "n", "o", "w", ".">>
    [] OTHER -> <<>>

\* str.lower() on the letters the decision phrases begin with.
Lower(c) ==
  CASE c = "I" -> "i" [] c = "L" -> "l" [] c = "W" -> "w" [] c = "G" -> "g"
    [] c = "D" -> "d" [] c = "C" -> "c" [] c = "O" -> "o" [] OTHER -> c

\* The alternatives of the two decision_patterns, lower-cased.
IntentPhrases ==
  << <<"i", "'", "l", "l">>,
     <<"l", "e", "t", "'", "s">>,
     <<"w", "e", " ", "s", "h", "o", "u", "l", "d">>,
     <<"g", "o", "i", "n", "g", " ", "t", "o">>,
     <<"i", " ", "w", "i", "l", "l">>,
     <<"w", "e", "'", "l", "l">> >>
ChoicePhrases ==
  << <<"d", "e", "c", "i", "d", "e", "d", " ", "t", "o">>,
     <<"c", "h", "o", "o", "s", "i", "n", "g", " ", "t", "o">>,
     <<"o", "p", "t", "i", "n", "g", " ", "f", "o", "r">> >>

\* \s, the class [.!?\n] the group excludes, and the class [.!?] that may end it.
Whitespace == {" ", "\n", "\t"}
Excluded == {".", "!", "?", "\n"}
EndMarks == {".", "!", "?"}

MaxOf(S) == CHOOSE j \in S : \A k \in S : k <= j

\* Whether the phrase k stands at position p of cs, whatever the case
\* (re.IGNORECASE).
PhraseAt(cs, p, k) ==
  /\ p + Len(k) - 1 <= Len(cs)
  /\ \A i \in 1..Len(k) : Lower(cs[p + i - 1]) = k[i]

\* The match of (?:k1|k2|..)\s+([^.!?\n]+[.!?]?) that starts at position p,
\* as [ok, from, to] with cs[from..to] the group: \s+ takes the longest run of
\* whitespace that leaves the group one character, the group the longest run
\* of other characters and the end mark that follows it.
MatchAt(cs, p, phrases) ==
  LET ks == {i \in DOMAIN phrases : PhraseAt(cs, p, phrases[i])} IN
  IF ks = {} THEN [ok |-> FALSE, from |-> 0, to |-> 0]
  ELSE LET q == p + Len(phrases[MaxOf(ks)])
           ws == {j \in 1..(Len(cs) - q + 1) :
                    \A i \in q..(q + j - 1) : cs[i] \in Whitespace}
           js == {j \in ws : q + j <= Len(cs) /\ cs[q + j] \notin Excluded}
       IN  IF js = {} THEN [ok |-> FALSE, from |-> 0, to |-> 0]
           ELSE LET g == q + MaxOf(js)
                    e == MaxOf({n \in g..Len(cs) :
                                  \A i \in g..n : cs[i] \notin Excluded})
                IN  [ok |-> TRUE, from |-> g,
                     to |-> IF e < Len(cs) /\ cs[e + 1] \in EndMarks
                            THEN e + 1 ELSE e]

\* re.findall(pattern, text, re.IGNORECASE): the groups of the matches, left to
\* right, none overlapping.
RECURSIVE FindAll(_, _, _)
FindAll(cs, p, phrases) ==
  IF p > Len(cs) THEN <<>>
  ELSE Bind(MatchAt(cs, p, phrases), LAMBDA m :
         IF m.ok THEN <<SubSeq(cs, m.from, m.to)>> \o FindAll(cs, m.to + 1, phrases)
         ELSE FindAll(cs, p + 1, phrases))

\* str.strip()
RECURSIVE Strip(_)
Strip(cs) ==
  IF cs = <<>> THEN cs
  ELSE IF Head(cs) \in Whitespace THEN Strip(Tail(cs))
  ELSE IF cs[Len(cs)] \in Whitespace THEN Strip(SubSeq(cs, 1, Len(cs) - 1))
  ELSE cs

MatchCap == 5
DecisionMinLen == 20
DecisionCap == 10

\* "for match in matches[:5]" of one pattern, with the length test minLen.
DecisionsOf(cs, phrases, minLen) ==
  LET matches == Take(FindAll(cs, 1, phrases), MatchCap)
      kept == SelectSeq(matches, LAMBDA m : Len(m) > minLen)
  IN  [i \in DOMAIN kept |-> Strip(kept[i])]

\* detect_decisions without "if len(match) > 20".
detect_decisionsAll(text) ==
  Take(DecisionsOf(Chars(text), IntentPhrases, 0)
         \o DecisionsOf(Chars(text), ChoicePhrases, 0), DecisionCap)

\* detect_decisions: a decision is the sequence of its characters.
detect_decisions(text) ==
  Take(DecisionsOf(Chars(text), IntentPhrases, DecisionMinLen)
         \o DecisionsOf(Chars(text), ChoicePhrases, DecisionMinLen), DecisionCap)

\* list(dict.fromkeys(xs)): duplicates dropped, first occurrences kept in order.
RECURSIVE DedupKeepFirst(_)
DedupKeepFirst(xs) ==
  IF xs = <<>> THEN <<>>
  ELSE LET init == DedupKeepFirst(SubSeq(xs, 1, Len(xs) - 1))
           x == xs[Len(xs)]
       IN  IF x \in Range(init) THEN init ELSE Append(init, x)

PhaseCap == 15

\* One TimelineEvent dict; "id" n stands for the string "evt-n".
Event(n, type, ts, content, tool_name, tool_input, tool_id, files) ==
  [id |-> n, type |-> type, timestamp |-> ts, content |-> content,
   tool_name |-> tool_name, tool_input |-> tool_input, tool_id |-> tool_id,
   files_affected |-> files]

\* AssistantBlock with the "event_counter += 1" of the tool_use branch left
\* out.
AssistantBlockKeepsCounter(r, item, ts, include_thinking) ==
  LET n == r.event_counter + 1 IN
  CASE item.type = "thinking" ->
         IF include_thinking
         THEN [r EXCEPT !.event_counter = n, !.events = Append(@,
                 Event(n, "thinking", ts, Some(item.text), None, None, None, <<>>))]
         ELSE r
    [] item.type = "text" ->
         [r EXCEPT !.event_counter = n,
                   !.events = Append(@,
                     Event(n, "assistant", ts, Some(item.text), None, None, None, <<>>)),
                   !.phases = @ \o detect_phases_and_plans(item.text),
                   !.decisions = @ \o detect_decisions(item.text)]
    [] item.type = "tool_use" ->
         LET files == extract_files_from_tool_use(item.name, item.input) IN
         [r EXCEPT !.tools_used = @ \cup {item.name},
                   !.files_modified =
                      IF item.name \in {"Write", "Edit"} THEN @ \cup Range(files) ELSE @,
                   !.files_read =
                      IF item.name = "Read" THEN @ \cup Range(files) ELSE @,
                   !.events = Append(@,
                     Event(r.event_counter, "tool_use", ts, None, Some(item.name),
                           Some(item.input), Some(item.id), files))]
    [] OTHER -> r

\* The body of "for item in content" for one block of an assistant record.
AssistantBlock(r, item, ts, include_thinking) ==
  LET n == r.event_counter + 1 IN
  CASE item.type = "thinking" ->
         IF include_thinking
         THEN [r EXCEPT !.event_counter = n, !.events = Append(@,
                 Event(n, "thinking", ts, Some(item.text), None, None, None, <<>>))]
         ELSE r
    [] item.type = "text" ->
         [r EXCEPT !.event_counter = n,
                   !.events = Append(@,
                     Event(n, "assistant", ts, Some(item.text), None, None, None, <<>>)),
                   !.phases = @ \o detect_phases_and_plans(item.text),
                   !.decisions = @ \o detect_decisions(item.text)]
    [] item.type = "tool_use" ->
         LET files == extract_files_from_tool_use(item.name, item.input) IN
         [r EXCEPT !.event_counter = n,
                   !.tools_used = @ \cup {item.name},
                   !.files_modified =
                      IF item.name \in {"Write", "Edit"} THEN @ \cup Range(files) ELSE @,
                   !.files_read =
                      IF item.name = "Read" THEN @ \cup Range(files) ELSE @,
                   !.events = Append(@,
                     Event(n, "tool_use", ts, None, Some(item.name),
                           Some(item.input), Some(item.id), files))]
    [] OTHER -> r

\* The body of "for item in content" for one block of a user record.
UserBlock(r, item, ts) ==
  IF item.type = "tool_result"
  THEN [r EXCEPT !.event_counter = @ + 1, !.events = Append(@,
          Event(r.event_counter + 1, "tool_result", ts, Some(item.text), None,
                None, Some(item.id), <<>>))]
  ELSE r

RECURSIVE Blocks(_, _, _, _, _)
Blocks(r, role, items, ts, include_thinking) ==
  IF items = <<>> THEN r
  ELSE Bind(IF role = "assistant"
            THEN AssistantBlock(r, Head(items), ts, include_thinking)
            ELSE UserBlock(r, Head(items), ts),
            LAMBDA r1 : Blocks(r1, role, Tail(items), ts, include_thinking))

\* The body of "for entry in entries" of process_entries for one entry.
ProcessEntry(r, entry, include_thinking) ==
  LET ts == parse_timestamp(entry.timestamp)
      r1 == [r EXCEPT
               !.session_id = IF ~TruthyStr(@) THEN entry.sessionId ELSE @,
               !.cwd = IF ~TruthyStr(@) THEN entry.cwd ELSE @,
               !.git_branch = IF ~TruthyStr(@) THEN entry.gitBranch ELSE @,
               !.start_time = IF ts # None /\ (@ = None \/ Val(ts) < Val(@))
                              THEN ts ELSE @,
               !.end_time = IF ts # None /\ (@ = None \/ Val(ts) > Val(@))
                            THEN ts ELSE @]
      hasContent == TruthyStr(entry.text) \/ entry.blocks # <<>>
  IN  IF entry.type = "queue-operation" \/ ~hasContent THEN r1
      ELSE IF entry.role = "user" /\ entry.text # None
      THEN [r1 EXCEPT !.event_counter = @ + 1, !.events = Append(@,
              Event(r1.event_counter + 1, "user", ts, entry.text, None, None,
                    None, <<>>)),
              !.phases = @ \o detect_phases_and_plans(Val(entry.text))]
      ELSE IF entry.role \in {"user", "assistant"} /\ entry.text = None
      THEN Bind(r1, LAMBDA r2 : Blocks(r2, entry.role, entry.blocks, ts,
                                      include_thinking))
      ELSE r1

RECURSIVE ProcessLoop(_, _, _)
ProcessLoop(r, entries, include_thinking) ==
  IF entries = <<>> THEN r
  ELSE Bind(ProcessEntry(r, RawLine(Head(entries)), include_thinking),
            LAMBDA r1 : ProcessLoop(r1, Tail(entries), include_thinking))

\* entry.get(...) raises AttributeError on an entry that is not a dict.
ProcessRaises(entries) ==
  \E i \in DOMAIN entries : RawLine(entries[i]).json = "nonobject"

\* The locals of process_entries before its loop: result and event_counter.
LoopStart ==
  [session_id |-> None, cwd |-> None, git_branch |-> None,
   start_time |-> None, end_time |-> None,
   files_modified |-> {}, files_read |-> {}, tools_used |-> {},
   phases |-> <<>>, decisions |-> <<>>, events |-> <<>>, event_counter |-> 0]

\* process_entries, for entries on which it does not raise.
process_entries(entries, include_thinking) ==
  Bind(ProcessLoop(LoopStart, entries, include_thinking), LAMBDA r :
  [session_id |-> r.session_id, cwd |-> r.cwd, git_branch |-> r.git_branch,
   start_time |-> r.start_time, end_time |-> r.end_time,
   files_modified |-> r.files_modified, files_read |-> r.files_read,
   tools_used |-> r.tools_used,
   phases |-> Take(DedupKeepFirst(r.phases), PhaseCap),
   decisions |-> Take(DedupKeepFirst(r.decisions), PhaseCap),
   events |-> r.events])

Duration(data) ==
  IF data.start_time # None /\ data.end_time # None
  THEN Some(Val(data.end_time) - Val(data.start_time))
  ELSE None

\* filepath.stat().st_size, in lines.
FileSize(content) == Len(content)

\* get_session_summary, for a file on which it does not raise.
get_session_summary(path, content, project_path, project_name) ==
  LET entries == parse_jsonl_file(content) IN
  IF entries = <<>>
  THEN [session_id |-> "unknown", project_path |-> project_path,
        project_name |-> project_name, file_path |-> path,
        start_time |-> None, end_time |-> None, duration_seconds |-> None,
        git_branch |-> None, cwd |-> None, message_count |-> 0,
        tool_count |-> 0, files_modified_count |-> 0,
        file_size_bytes |-> FileSize(content)]
  ELSE Bind(process_entries(entries, FALSE), LAMBDA data :
       [session_id |-> IF TruthyStr(data.session_id)
                       THEN Val(data.session_id) ELSE Stem(path),
        project_path |-> project_path, project_name |-> project_name,
        file_path |-> path,
        start_time |-> data.start_time, end_time |-> data.end_time,
        duration_seconds |-> Duration(data),
        git_branch |-> data.git_branch, cwd |-> data.cwd,
        message_count |-> Len(SelectSeq(data.events,
                            LAMBDA e : e.type \in {"user", "assistant"})),
        tool_count |-> Len(SelectSeq(data.events,
                            LAMBDA e : e.type = "tool_use")),
        files_modified_count |-> Cardinality(data.files_modified),
        file_size_bytes |-> FileSize(content)])

\* f.startswith("[")
IsPlaceholder(f) ==
  f \in {"[pattern]", "[search]", "[pattern: *.py]", "[search: TODO]", "[id].tsx"}

\* get_session_detail, for a file on which it does not raise.  The sorted
\* duplicate-free lists files_modified, files_read and tools_used are kept as
\* the sets that determine them.
get_session_detail(path, content, project_path, project_name, include_thinking) ==
  Bind(process_entries(parse_jsonl_file(content), include_thinking), LAMBDA data :
  [session_id |-> IF TruthyStr(data.session_id)
                  THEN Val(data.session_id) ELSE Stem(path),
   project_path |-> project_path, project_name |-> project_name,
   file_path |-> path, cwd |-> data.cwd, git_branch |-> data.git_branch,
   start_time |-> data.start_time, end_time |-> data.end_time,
   duration_seconds |-> Duration(data),
   files_modified |-> {f \in data.files_modified : ~IsPlaceholder(f)},
   files_read |-> {f \in data.files_read : ~IsPlaceholder(f)},
   tools_used |-> data.tools_used,
   phases |-> data.phases, decisions |-> data.decisions,
   events |-> data.events])

\* Whether parsing the file raises (get_session_summary and
\* get_session_detail parse the same entries).
ParseRaises(content) == ProcessRaises(parse_jsonl_file(content))


(***************************************************************************)
(* session_indexer.py: project directory names                             *)
(***************************************************************************)
\* The loop of SessionIndexer._decode_project_path over segments[i..]:
\* parts are the decoded components, cur the pieces of the current one.
\* dirs are the paths for which Path(test_path).exists() holds.
RECURSIVE DecodeLoopOn(_, _, _, _, _)
DecodeLoopOn(dirs, segs, i, parts, cur) ==
  IF i > Len(segs)
  THEN IF cur # <<>> THEN Append(parts, cur) ELSE parts
  ELSE LET cur1 == Append(cur, segs[i])
           test_path == Append(parts, cur1)
       IN  IF test_path \in dirs \/ i = Len(segs)
           THEN DecodeLoopOn(dirs, segs, i + 1, Append(parts, cur1), <<>>)
           ELSE DecodeLoopOn(dirs, segs, i + 1, parts, cur1)

\* The loop on the disk of the projects of the model.
DecodeLoop(segs, i, parts, cur) == DecodeLoopOn(DiskDirs, segs, i, parts, cur)

\* SessionIndexer._decode_project_path: the decoded path as its components;
\* abs tells whether it starts with "/".
Indexer_decode_project_path(encoded_name) ==
  IF ~encoded_name.lead
  THEN [abs |-> FALSE, parts |-> [i \in DOMAIN encoded_name.segs |->
                                    <<encoded_name.segs[i]>>]]
  ELSE [abs |-> TRUE, parts |-> DecodeLoop(encoded_name.segs, 1, <<>>, <<>>)]

\* SessionIndexer._get_project_name: Path(decoded).name, the last component.
Indexer_get_project_name(encoded_name) ==
  LET d == Indexer_decode_project_path(encoded_name) IN
  IF d.parts = <<>> THEN <<>> ELSE d.parts[Len(d.parts)]

(***************************************************************************)
(* session_db.py: the SQLite store.  sessions and session_metadata are     *)
(* sets of rows; events is the events table in the order of its            *)
(* AUTOINCREMENT id, so a new row is appended and ORDER BY id ASC is the   *)
(* order of the sequence.  The column indexed_at is written and never      *)
(* read, and is left out.  "rowids" lists the session_ids of the sessions   *)
(* rows in the order of their rowids, oldest first: a new row gets a rowid *)
(* above every other.  "fts" is the index of the external-content table    *)
(* events_fts: "live" are its entries for rows the events table holds,     *)
(* "dead" the indexed contents whose events row is gone.                   *)
(***************************************************************************)
EmptyDb == [sessions |-> {}, events |-> <<>>, metadata |-> {}, rowids |-> <<>>,
            fts |-> [live |-> {}, dead |-> {}]]

\* datetime.isoformat() / datetime.fromisoformat()
IsoFormat(t) == <<"iso", t>>
FromIsoFormat(s) == s[2]
\* json.dumps / json.loads
JsonDumps(v) == <<"json", v>>
JsonLoads(s) == s[2]

\* "x.isoformat() if x else None": a datetime is always truthy.
IsoOrNull(o) == IF o # None THEN IsoFormat(Val(o)) ELSE None
\* "datetime.fromisoformat(c) if c else None"
FromIsoOrNone(c) == IF c # None THEN Some(FromIsoFormat(c)) ELSE None

\* int(file_path.stat().st_mtime): the whole seconds of a time in ticks.
IntMtime(mtime) == mtime \div TicksPerSec

\* The parameters of "INSERT OR REPLACE INTO sessions" (index_session).
SessionRow(summary, path, file_mtime) ==
  [session_id |-> summary.session_id,
   project_path |-> summary.project_path,
   project_name |-> summary.project_name,
   file_path |-> path,
   start_time |-> IsoOrNull(summary.start_time),
   end_time |-> IsoOrNull(summary.end_time),
   duration_seconds |-> summary.duration_seconds,
   git_branch |-> summary.git_branch,
   cwd |-> summary.cwd,
   message_count |-> summary.message_count,
   tool_count |-> summary.tool_count,
   files_modified_count |-> summary.files_modified_count,
   file_size_bytes |-> summary.file_size_bytes,
   file_mtime |-> file_mtime]

\* The parameters of "INSERT INTO events" for one event (index_session).
EventRow(session_id, event) ==
  [session_id |-> session_id,
   event_id |-> event.id,
   type |-> event.type,
   timestamp |-> IsoOrNull(event.timestamp),
   content |-> event.content,
   tool_name |-> event.tool_name,
   tool_input_json |-> IF TruthyDict(event.tool_input)
                       THEN JsonDumps(Val(event.tool_input)) ELSE None,
   tool_id |-> event.tool_id,
   files_affected_json |-> IF event.files_affected # <<>>
                           THEN JsonDumps(event.files_affected) ELSE None]

\* The parameters of "INSERT OR REPLACE INTO session_metadata".
MetadataRow(session_id, detail) ==
  [session_id |-> session_id,
   files_modified_json |-> JsonDumps(detail.files_modified),
   files_read_json |-> JsonDumps(detail.files_read),
   tools_used_json |-> JsonDumps(detail.tools_used),
   phases_json |-> JsonDumps(detail.phases),
   decisions_json |-> JsonDumps(detail.decisions)]

\* A DELETE that deletes nothing (C6 fails with it).
DeleteEventRowsNone(events, ids) == events

\* The events table after the rows of the sessions ids are deleted from it,
\* by a DELETE statement or by ON DELETE CASCADE.
DeleteEventRows(events, ids) ==
  SelectSeq(events, LAMBDA e : e.session_id \notin ids)

\* Trigger events_ai: the index entry of a new events row.
FtsEntry(erow) ==
  [session_id |-> erow.session_id, event_id |-> erow.event_id,
   content |-> erow.content]

\* Trigger events_ad, "DELETE FROM events_fts WHERE rowid = old.id", run
\* AFTER DELETE: events_fts is an external-content table (content=events), so
\* FTS5 reads the row's text from events to find the index entries to remove,
\* finds the row gone and removes none: the entries of the deleted rows stay
\* in the index with no row behind them.  kept is the events table after the
\* DELETE.
FtsAfterDelete(fts, events, kept) ==
  LET gone == {FtsEntry(events[i]) : i \in DOMAIN events}
                \ {FtsEntry(kept[i]) : i \in DOMAIN kept}
  IN  [live |-> fts.live \ gone,
       dead |-> fts.dead \cup {Val(g.content) : g \in {x \in gone : x.content # None}}]

\* The store after the events rows of the sessions ids are deleted.
DeleteFromEvents(d, ids) ==
  Bind(DeleteEventRows(d.events, ids), LAMBDA kept :
  [d EXCEPT !.events = kept, !.fts = FtsAfterDelete(@, d.events, kept)])

\* CascadeDelete without "PRAGMA foreign_keys = ON": the rows of the other
\* tables stay.
CascadeDeleteOff(d, ids) == d

\* ON DELETE CASCADE with PRAGMA foreign_keys = ON: deleting the sessions
\* rows of ids removes their events and metadata rows.
CascadeDelete(d, ids) ==
  [DeleteFromEvents(d, ids) EXCEPT
     !.metadata = {m \in @ : m.session_id \notin ids}]

\* INSERT OR REPLACE INTO sessions: the rows in conflict with the new one on
\* the primary key session_id or on the UNIQUE file_path are deleted first.
InsertOrReplaceSession(d, row) ==
  LET conflicts == {x \in d.sessions : x.session_id = row.session_id
                                       \/ x.file_path = row.file_path}
      d1 == CascadeDelete(d, {x.session_id : x \in conflicts})
  IN  [d1 EXCEPT !.sessions = (@ \ conflicts) \cup {row},
                 !.rowids = Append(SelectSeq(@, LAMBDA id :
                                     id \notin {x.session_id : x \in conflicts}),
                                   row.session_id)]

\* DELETE FROM events WHERE session_id = ?
DeleteEvents(d, session_id) == DeleteFromEvents(d, {session_id})

\* INSERT INTO events, with the trigger events_ai
InsertEvent(d, erow) ==
  [d EXCEPT !.events = Append(@, erow),
            !.fts.live = @ \cup {FtsEntry(erow)}]

\* INSERT OR REPLACE INTO session_metadata
InsertOrReplaceMetadata(d, mrow) ==
  [d EXCEPT !.metadata = {m \in @ : m.session_id # mrow.session_id} \cup {mrow}]

\* Number of statements index_session executes in its transaction.
NStatements(detail) == Len(detail.events) + 3

\* The store as the transaction of index_session sees it after its first k
\* statements.
RECURSIVE TxnAfter(_, _, _, _, _, _)
TxnAfter(d, summary, detail, path, file_mtime, k) ==
  IF k = 0 THEN d
  ELSE Bind(TxnAfter(d, summary, detail, path, file_mtime, k - 1), LAMBDA prev :
       IF k = 1 THEN InsertOrReplaceSession(prev, SessionRow(summary, path, file_mtime))
       ELSE IF k = 2 THEN DeleteEvents(prev, summary.session_id)
       ELSE IF k <= Len(detail.events) + 2
       THEN InsertEvent(prev, EventRow(summary.session_id, detail.events[k - 2]))
       ELSE InsertOrReplaceMetadata(prev, MetadataRow(summary.session_id, detail)))

\* A rollback that keeps the writes of the transaction (C9 fails with
\* it).
RollbackNone(before, work) == work

\* _get_connection: conn.commit() publishes the transaction's writes,
\* conn.rollback() discards them.
Commit(before, work) == work
Rollback(before, work) == before


\* index_session as a function of the store and the file it reads: the new
\* store and whether the call returned (ok) or raised.  failAt = 0 is a run
\* without a database error; failAt = k > 0 is a database error raised by the
\* k-th statement of the transaction (the commit, after the last statement).
index_session(d, path, file, project_path, project_name, failAt) ==
  IF file.state # "present" \/ ParseRaises(file.content)
  THEN [db |-> d, ok |-> FALSE]
  ELSE Bind(get_session_summary(path, file.content, project_path, project_name),
            LAMBDA summary :
       Bind(get_session_detail(path, file.content, project_path, project_name, FALSE),
            LAMBDA detail :
       LET file_mtime == IntMtime(file.mtime)
           n == NStatements(detail)
       IN  IF failAt = 0 \/ failAt > n + 1
           THEN [db |-> Commit(d, TxnAfter(d, summary, detail, path, file_mtime, n)),
                 ok |-> TRUE]
           ELSE [db |-> Rollback(d, TxnAfter(d, summary, detail, path, file_mtime,
                                               failAt - 1)),
                 ok |-> FALSE]))

\* "if current_mtime > indexed_mtime" (check_stale_sessions, get_session_by_id)
IsStale(current_mtime, indexed_mtime) == current_mtime > indexed_mtime

\* file_path.exists()
Exists(files, path) == path \in AllPaths /\ files[path].state = "present"

\* projects_dir.rglob("*.jsonl")
Rglob(files) == {p \in AllPaths : Exists(files, p)}

\* check_stale_sessions, first loop: the indexed files that exist and are
\* newer than their row.
StaleIndexed(d, files) ==
  {row.file_path : row \in {x \in d.sessions :
       /\ Exists(files, x.file_path)
       /\ IsStale(IntMtime(files[x.file_path].mtime), x.file_mtime)}}

\* check_stale_sessions, second loop: the files found that are not indexed.
NotIndexed(d, files) ==
  {p \in Rglob(files) : p \notin {x.file_path : x \in d.sessions}}

\* All the orders in which a set can be listed.
Orders(S) ==
  {q \in [1..Cardinality(S) -> S] : \A i, j \in DOMAIN q : i # j => q[i] # q[j]}

\* check_stale_sessions: the lists it can return; the order of the rows of a
\* SELECT without ORDER BY and the order of rglob are not fixed.
check_stale_sessions(d, files) ==
  {s \o n : s \in Orders(StaleIndexed(d, files)), n \in Orders(NotIndexed(d, files))}

\* The TimelineEvent rebuilt from a row of events (get_session_by_id).
EventOfRow(row) ==
  [id |-> row.event_id, type |-> row.type,
   timestamp |-> FromIsoOrNone(row.timestamp),
   content |-> row.content, tool_name |-> row.tool_name,
   tool_input |-> IF row.tool_input_json # None
                  THEN Some(JsonLoads(row.tool_input_json)) ELSE None,
   tool_id |-> row.tool_id,
   files_affected |-> IF row.files_affected_json # None
                      THEN JsonLoads(row.files_affected_json) ELSE <<>>]

\* "json.loads(m[col]) if m and m[col] else []" on the metadata rows of a
\* session (none or one); empty is the value of an empty list.
MetaField(mrows, col, empty) ==
  IF mrows = {} THEN empty ELSE JsonLoads((CHOOSE m \in mrows : TRUE)[col])

\* The SessionDetail get_session_by_id rebuilds from a sessions row, the
\* metadata rows and the events rows it selected.
Reconstruct(session_row, mrows, event_rows, include_thinking) ==
  LET rows == IF include_thinking THEN event_rows
              ELSE SelectSeq(event_rows, LAMBDA e : e.type # "thinking")
  IN  [session_id |-> session_row.session_id,
       project_path |-> session_row.project_path,
       project_name |-> session_row.project_name,
       file_path |-> session_row.file_path,
       cwd |-> session_row.cwd, git_branch |-> session_row.git_branch,
       start_time |-> FromIsoOrNone(session_row.start_time),
       end_time |-> FromIsoOrNone(session_row.end_time),
       duration_seconds |-> session_row.duration_seconds,
       files_modified |-> MetaField(mrows, "files_modified_json", {}),
       files_read |-> MetaField(mrows, "files_read_json", {}),
       tools_used |-> MetaField(mrows, "tools_used_json", {}),
       phases |-> MetaField(mrows, "phases_json", <<>>),
       decisions |-> MetaField(mrows, "decisions_json", <<>>),
       events |-> [i \in DOMAIN rows |-> EventOfRow(rows[i])]]

SelectSession(d, session_id) == {x \in d.sessions : x.session_id = session_id}
SelectMetadata(d, session_id) == {m \in d.metadata : m.session_id = session_id}
SelectEvents(d, session_id) == SelectSeq(d.events, LAMBDA e : e.session_id = session_id)

\* A fall back to the parser that always asks for the thinking events (C17
\* fails with it).
ParseLiveThinking(session_row, files, include_thinking) ==
  LET path == session_row.file_path IN
  IF ~Exists(files, path) \/ ParseRaises(files[path].content) THEN None
  ELSE Some(get_session_detail(path, files[path].content, session_row.project_path,
                               session_row.project_name, TRUE))

\* The fall back to the JSONL parser: get_session_detail on the file of the
\* row; a parse that raises is caught (the except branch parses again, which
\* raises again and is swallowed) and None is returned.
ParseLive(session_row, files, include_thinking) ==
  LET path == session_row.file_path IN
  IF ~Exists(files, path) \/ ParseRaises(files[path].content) THEN None
  ELSE Some(get_session_detail(path, files[path].content, session_row.project_path,
                               session_row.project_name, include_thinking))

\* SessionDatabase.get_session_by_id with every SELECT reading the same
\* committed store.
get_session_by_id(d, files, session_id, include_thinking) ==
  LET srows == SelectSession(d, session_id) IN
  IF srows = {} THEN None
  ELSE LET session_row == CHOOSE x \in srows : TRUE
           path == session_row.file_path
       IN  IF ~Exists(files, path) THEN None
           ELSE IF IsStale(IntMtime(files[path].mtime), session_row.file_mtime)
           THEN ParseLive(session_row, files, include_thinking)
           ELSE Some(Reconstruct(session_row, SelectMetadata(d, session_id),
                                 SelectEvents(d, session_id), include_thinking))


(***************************************************************************)
(* State.                                                                  *)
(*   files  the Source Files on disk: state, modification time in ticks    *)
(*          and content (the kinds of its lines)                           *)
(*   db     the committed content of the SQLite store                      *)
(*   last   the last call of a handler and what it returned; a change on   *)
(*          disk resets it, so a state with last.op set is the state the   *)
(*          call left.  again tells that the call repeats the call before  *)
(*          it; for index_session, res tells whether it returned (ok),     *)
(*          the database error it met (failAt) and whether the file had    *)
(*          been indexed before with another content (changed) or was      *)
(*          appended to during the call (raced)                            *)
(*   hist   history: for each path, the modification time and content of   *)
(*          the file as the last successful index_session read them        *)
(*   w      a call of index_session in progress in one process: its        *)
(*          position, its local variables and, as history, the content and *)
(*          the modification time it read and whether the file was         *)
(*          appended to since the call began (raced)                       *)
(*   r      a call of get_session_by_id in progress in another process:    *)
(*          its position, its local variables and, as history, the         *)
(*          complete entries of the session the store held during the call *)
(*   cache  the TTLCache of the SessionIndexer: the lists of summaries the  *)
(*          file scan of get_sessions has stored, each under its key       *)
(***************************************************************************)
VARIABLES files, db, last, hist, w, r, cache

vars == <<files, db, last, hist, w, r, cache>>

SessionIds == {"s1", "a", "b", "unknown"}

NoCall == [op |-> "none", arg |-> None, res |-> None, again |-> FALSE]

NoFile == [state |-> "absent", mtime |-> 0, content |-> <<>>]

WriterIdle == [pc |-> "idle", path |-> None, summary |-> None, detail |-> None,
               file_mtime |-> None, read |-> None, mtime |-> None, raced |-> FALSE]

ReaderIdle == [pc |-> "idle", session_id |-> None, include_thinking |-> FALSE,
               session_row |-> None, metadata_rows |-> {}, res |-> None,
               via |-> "none", views |-> {}]

\* The complete entry the store holds for a session, as get_session_by_id
\* rebuilds it when nothing is written during its SELECTs.
View(d, session_id, include_thinking) ==
  LET srows == SelectSession(d, session_id) IN
  IF srows = {} THEN None
  ELSE Some(Reconstruct(CHOOSE x \in srows : TRUE, SelectMetadata(d, session_id),
                        SelectEvents(d, session_id), include_thinking))

Reading == r.pc \in {"row", "fresh", "metadata"}

\* The history of a call of get_session_by_id that has returned is dropped
\* by the next step of another process.
Forget == IF r.pc = "done" THEN ReaderIdle ELSE r

\* The history of a call of get_session_by_id when index_session commits the
\* store d while the call is between its SELECTs.
Observe(d) ==
  IF Reading
  THEN [r EXCEPT !.views = @ \cup {View(d, Val(r.session_id), r.include_thinking)}]
  ELSE Forget

Init ==
  /\ files = [p \in AllPaths |-> NoFile]
  /\ db = EmptyDb
  /\ last = NoCall
  /\ hist = [p \in AllPaths |-> None]
  /\ w = WriterIdle
  /\ r = ReaderIdle
  /\ cache = {}

RECURSIVE SumLen(_, _)
SumLen(f, S) ==
  IF S = {} THEN 0
  ELSE LET p == CHOOSE x \in S : TRUE IN Len(f[p].content) + SumLen(f, S \ {p})

(***************************************************************************)
(* The environment: the recorder of sessions creates, appends to and       *)
(* deletes Source Files.  Every write moves the modification time on by    *)
(* one tick.                                                               *)
(***************************************************************************)
CreateAt(p, T) ==
  /\ files[p].state = "absent"
  /\ \E t \in T :
       files' = [files EXCEPT ![p] = [state |-> "present", mtime |-> t,
                                      content |-> <<>>]]
  /\ last' = NoCall
  /\ r' = Forget
  /\ UNCHANGED <<db, hist, w, cache>>

CreateFile(p) == CreateAt(p, 0..(TicksPerSec - 1))

AppendOf(p, K) ==
  /\ files[p].state = "present"
  /\ SumLen(files, AllPaths) < MaxAppends
  /\ \E k \in K :
       files' = [files EXCEPT ![p].content = Append(@, k), ![p].mtime = @ + 1]
  /\ last' = NoCall
  /\ w' = IF w.pc # "idle" /\ w.path = Some(p) THEN [w EXCEPT !.raced = TRUE] ELSE w
  /\ r' = Forget
  /\ UNCHANGED <<db, hist, cache>>

AppendLine(p) == AppendOf(p, LineKinds)

DeleteFile(p) ==
  /\ files[p].state = "present"
  /\ files' = [files EXCEPT ![p].state = "deleted"]
  /\ last' = NoCall
  /\ r' = Forget
  /\ UNCHANGED <<db, hist, w, cache>>

(***************************************************************************)
(* The handlers, each run to completion with no change on disk meanwhile.  *)
(***************************************************************************)
\* What index_session read of the file, kept as history.
Snapshot(file) == Some([mtime |-> file.mtime, content |-> file.content])

\* The places where a database error can strike a call of index_session on
\* the file: none when the parser raises first, else each statement of the
\* transaction and the commit.
FailPoints(file) ==
  IF file.state # "present" \/ ParseRaises(file.content) THEN 0
  ELSE NStatements(process_entries(parse_jsonl_file(file.content), FALSE)) + 1

\* One call of index_session(file_path, project_path, project_name), with the
\* project path and name _sync_index decodes for the file.
IndexCall(p, failAt) ==
  \E out \in {index_session(db, p, files[p],
                            Indexer_decode_project_path(DirName(p)),
                            Indexer_get_project_name(DirName(p)), failAt)} :
      /\ db' = out.db
      /\ hist' = IF out.ok THEN [hist EXCEPT ![p] = Snapshot(files[p])] ELSE hist
      /\ last' = [op |-> "index", arg |-> p,
                  res |-> [ok |-> out.ok, failAt |-> failAt,
                           changed |-> hist[p] # None
                                       /\ Val(hist[p]).content # files[p].content,
                           raced |-> FALSE],
                  again |-> out.ok /\ last.op = "index" /\ last.arg = p /\ last.res.ok]
      /\ r' = Observe(out.db)
      /\ UNCHANGED <<files, w, cache>>

\* SessionDatabase.index_session with a database that works.
IndexSession(p) == IndexCall(p, 0)

\* SessionDatabase.index_session with a database error at one of its
\* statements or at the commit.
IndexSessionDbError(p) ==
  \E failAt \in 1..FailPoints(files[p]) : IndexCall(p, failAt)

\* SessionDatabase.check_stale_sessions(settings.claude_projects_dir)
CheckStale ==
  \E stale_files \in check_stale_sessions(db, files) :
    /\ last' = [op |-> "scan", arg |-> None, res |-> stale_files, again |-> FALSE]
    /\ UNCHANGED <<files, db, hist, w, r, cache>>

\* A loop over stale_files that ends at the first candidate whose
\* index_session raises (C16 fails with it).
RECURSIVE SyncLoopStops(_, _, _)
SyncLoopStops(acc, stale_files, failAt) ==
  IF stale_files = <<>> THEN acc
  ELSE LET p == Head(stale_files) IN
       Bind(index_session(acc.db, p, files[p],
                          Indexer_decode_project_path(DirName(p)),
                          Indexer_get_project_name(DirName(p)), failAt[p]),
            LAMBDA out :
       IF ~out.ok THEN acc
       ELSE Bind([db |-> out.db,
                  hist |-> [acc.hist EXCEPT ![p] = Snapshot(files[p])],
                  indexed |-> acc.indexed \cup {p}],
                 LAMBDA acc1 : SyncLoopStops(acc1, Tail(stale_files), failAt)))

\* The loop of _sync_index over stale_files: a candidate whose index_session
\* raises is logged and skipped.  acc holds the store, the history and the
\* set of the files indexed.
RECURSIVE SyncLoop(_, _, _)
SyncLoop(acc, stale_files, failAt) ==
  IF stale_files = <<>> THEN acc
  ELSE LET p == Head(stale_files) IN
       Bind(index_session(acc.db, p, files[p],
                          Indexer_decode_project_path(DirName(p)),
                          Indexer_get_project_name(DirName(p)), failAt[p]),
            LAMBDA out :
       Bind([db |-> out.db,
             hist |-> IF out.ok THEN [acc.hist EXCEPT ![p] = Snapshot(files[p])]
                      ELSE acc.hist,
             indexed |-> IF out.ok THEN acc.indexed \cup {p} ELSE acc.indexed],
            LAMBDA acc1 : SyncLoop(acc1, Tail(stale_files), failAt)))

\* One run of _sync_index; failAt gives, for each file, the database error
\* its index_session meets (0: none).
SyncRun(failAt) ==
  \E stale_files \in check_stale_sessions(db, files) :
    \E out \in {SyncLoop([db |-> db, hist |-> hist, indexed |-> {}],
                          stale_files, failAt)} :
        /\ db' = out.db
        /\ hist' = out.hist
        /\ last' = [op |-> "sync", arg |-> failAt,
                    res |-> [candidates |-> stale_files, indexed |-> out.indexed],
                    again |-> last.op = "sync"]
        /\ UNCHANGED <<files, w, r, cache>>

\* SessionIndexer._sync_index with a database that works.
SyncIndex == SyncRun([p \in AllPaths |-> 0])

\* SessionIndexer._sync_index with a database error in the index_session of
\* one of the candidates.
SyncIndexDbError ==
  \E p \in StaleIndexed(db, files) \cup NotIndexed(db, files) :
    \E k \in 1..FailPoints(files[p]) :
      SyncRun([q \in AllPaths |-> IF q = p THEN k ELSE 0])

\* SessionDatabase.get_session_by_id(session_id, include_thinking)
GetSession(session_id, include_thinking) ==
  /\ last' = [op |-> "get", arg |-> <<session_id, include_thinking>>,
              res |-> get_session_by_id(db, files, session_id, include_thinking),
              again |-> FALSE]
  /\ UNCHANGED <<files, db, hist, w, r, cache>>

Disk ==
  \/ \E p \in Paths : CreateFile(p)
  \/ \E p \in Paths : AppendLine(p)
  \/ \E p \in Paths : DeleteFile(p)

\* The store written by index_session alone, database errors included.
NextPut ==
  \/ Disk
  \/ \E p \in Paths : IndexSession(p)
  \/ \E p \in Paths : IndexSessionDbError(p)
SpecPut == Init /\ [][NextPut]_vars

\* index_session and the staleness scan.
NextScan == Disk \/ (\E p \in Paths : IndexSession(p)) \/ CheckStale
SpecScan == Init /\ [][NextScan]_vars

\* Incremental sync.
NextSync == Disk \/ SyncIndex
SpecSync == Init /\ [][NextSync]_vars

\* Incremental sync with candidates that fail.
NextSyncFail == Disk \/ SyncIndex \/ SyncIndexDbError
SpecSyncFail == Init /\ [][NextSyncFail]_vars

\* index_session and the read path.
NextGet ==
  \/ Disk
  \/ \E p \in Paths : IndexSession(p)
  \/ \E id \in SessionIds, it \in BOOLEAN : GetSession(id, it)
SpecGet == Init /\ [][NextGet]_vars


(***************************************************************************)
(* index_session and get_session_by_id step by step: one process (the MCP  *)
(* server, or the web application at start-up) indexes while the other     *)
(* reads and the recorder of sessions writes the files.  Each step is one  *)
(* read of the file system or one statement; the transaction of            *)
(* index_session is one step, as SQLite shows it to other connections only *)
(* when it commits, and each SELECT of get_session_by_id is a transaction  *)
(* of its own (sqlite3 opens one only before a statement that writes).     *)
(***************************************************************************)
\* index_session raises: "logger.error(...); raise".
RaiseIndex(p) ==
  /\ w' = WriterIdle
  /\ last' = [op |-> "index", arg |-> p,
              res |-> [ok |-> FALSE, failAt |-> 0, changed |-> FALSE, raced |-> w.raced],
              again |-> FALSE]
  /\ UNCHANGED <<files, db, hist, r, cache>>

\* "summary = get_session_summary(file_path, project_path, project_name)"
ParseSummary(p) ==
  /\ w.pc = "idle"
  /\ IF ~Exists(files, p) \/ ParseRaises(files[p].content) THEN RaiseIndex(p)
     ELSE /\ w' = [WriterIdle EXCEPT
                     !.pc = "summary", !.path = Some(p),
                     !.summary = Some(get_session_summary(p, files[p].content,
                                        Indexer_decode_project_path(DirName(p)),
                                        Indexer_get_project_name(DirName(p))))]
          /\ UNCHANGED <<files, db, last, hist, r, cache>>

\* "detail = get_session_detail(file_path, ..., include_thinking=False)"
ParseDetail ==
  /\ w.pc = "summary"
  /\ LET p == Val(w.path) IN
     IF ~Exists(files, p) \/ ParseRaises(files[p].content) THEN RaiseIndex(p)
     ELSE /\ w' = [w EXCEPT
                     !.pc = "detail",
                     !.read = Some(files[p].content),
                     !.detail = Some(get_session_detail(p, files[p].content,
                                       Indexer_decode_project_path(DirName(p)),
                                       Indexer_get_project_name(DirName(p)), FALSE))]
          /\ UNCHANGED <<files, db, last, hist, r, cache>>

\* "file_mtime = int(file_path.stat().st_mtime)"
StatFile ==
  /\ w.pc = "detail"
  /\ LET p == Val(w.path) IN
     IF ~Exists(files, p) THEN RaiseIndex(p)
     ELSE /\ w' = [w EXCEPT !.pc = "stat", !.mtime = Some(files[p].mtime),
                            !.file_mtime = Some(IntMtime(files[p].mtime))]
          /\ UNCHANGED <<files, db, last, hist, r, cache>>

\* "with self._get_connection() as conn: ..." of index_session, committed.
CommitIndex ==
  /\ w.pc = "stat"
  /\ LET p == Val(w.path)
         detail == Val(w.detail)
     IN  /\ db' = Commit(db, TxnAfter(db, Val(w.summary), detail, p, Val(w.file_mtime),
                                      NStatements(detail)))
         /\ hist' = [hist EXCEPT ![p] = Some([mtime |-> Val(w.mtime),
                                              content |-> Val(w.read)])]
         /\ last' = [op |-> "index", arg |-> p,
                     res |-> [ok |-> TRUE, failAt |-> 0,
                              changed |-> hist[p] # None
                                          /\ Val(hist[p]).content # Val(w.read),
                              raced |-> w.raced],
                     again |-> FALSE]
         /\ r' = Observe(db')
  /\ w' = WriterIdle
  /\ UNCHANGED <<files, cache>>

\* get_session_by_id returns.
ReturnGet(res, via) ==
  r' = [r EXCEPT !.pc = "done", !.res = res, !.via = via]

\* "SELECT * FROM sessions WHERE session_id = ?"
ReadSession(session_id, include_thinking) ==
  /\ r.pc \in {"idle", "done"}
  /\ LET srows == SelectSession(db, session_id)
         start == [ReaderIdle EXCEPT !.session_id = Some(session_id),
                                     !.include_thinking = include_thinking,
                                     !.views = {View(db, session_id, include_thinking)}]
     IN  IF srows = {} THEN r' = [start EXCEPT !.pc = "done"]
         ELSE r' = [start EXCEPT !.pc = "row",
                                 !.session_row = Some(CHOOSE x \in srows : TRUE)]
  /\ UNCHANGED <<files, db, last, hist, w, cache>>

\* "if not file_path.exists(): return None" and the check of staleness, with
\* the parse of the live file when the file is newer than the row.
CheckFile ==
  /\ r.pc = "row"
  /\ LET session_row == Val(r.session_row)
         path == session_row.file_path
     IN  IF ~Exists(files, path) THEN ReturnGet(None, "none")
         ELSE IF IsStale(IntMtime(files[path].mtime), session_row.file_mtime)
         THEN ReturnGet(ParseLive(session_row, files, r.include_thinking), "parse")
         ELSE r' = [r EXCEPT !.pc = "fresh"]
  /\ UNCHANGED <<files, db, last, hist, w, cache>>

\* "SELECT * FROM session_metadata WHERE session_id = ?"
ReadMetadata ==
  /\ r.pc = "fresh"
  /\ r' = [r EXCEPT !.pc = "metadata",
                    !.metadata_rows = SelectMetadata(db, Val(r.session_id))]
  /\ UNCHANGED <<files, db, last, hist, w, cache>>

\* "SELECT * FROM events WHERE session_id = ? ORDER BY id ASC" and the
\* SessionDetail built from the three results.
ReadEvents ==
  /\ r.pc = "metadata"
  /\ ReturnGet(Some(Reconstruct(Val(r.session_row), r.metadata_rows,
                                SelectEvents(db, Val(r.session_id)),
                                r.include_thinking)), "store")
  /\ UNCHANGED <<files, db, last, hist, w, cache>>

\* index_session step by step while the files are written.
NextWrite ==
  \/ Disk
  \/ \E p \in Paths : ParseSummary(p)
  \/ ParseDetail
  \/ StatFile
  \/ CommitIndex
SpecWrite == Init /\ [][NextWrite]_vars

\* get_session_by_id step by step while index_session commits and the file
\* of the session is written; one Source File.
NextRead ==
  \/ CreateFile(FileA)
  \/ AppendLine(FileA)
  \/ DeleteFile(FileA)
  \/ IndexSession(FileA)
  \/ \E id \in SessionIds, it \in BOOLEAN : ReadSession(id, it)
  \/ CheckFile
  \/ ReadMetadata
  \/ ReadEvents
SpecRead == Init /\ [][NextRead]_vars


(***************************************************************************)
(* session_db.py: full rebuild                                             *)
(***************************************************************************)
\* SessionDatabase._decode_project_path: every "-" of the name becomes "/".
Db_decode_project_path(encoded_name) ==
  [abs |-> encoded_name.lead,
   parts |-> [i \in DOMAIN encoded_name.segs |-> <<encoded_name.segs[i]>>]]

\* Path(project_path).name
PathName(project_path) ==
  IF project_path.parts = <<>> THEN <<>>
  ELSE project_path.parts[Len(project_path.parts)]

\* projects_dir.iterdir(), without the entries rebuild_index skips: the
\* directories that hold a file and whose name does not start with ".".
ProjectDirs(f) == {DirName(p) : p \in {q \in AllPaths : Exists(f, q)
                                                      /\ ~StartsWithDot(DirName(q))}}

\* project_dir.glob("*.jsonl")
Glob(f, project_dir) == {p \in AllPaths : Exists(f, p) /\ DirName(p) = project_dir}

\* The files of the directories dirs[i..], directory by directory, each
\* directory's files in the order given for it.
RECURSIVE WalkOf(_, _, _)
WalkOf(dirs, order, i) ==
  IF i > Len(dirs) THEN <<>> ELSE order[dirs[i]] \o WalkOf(dirs, order, i + 1)

\* The orders in which rebuild_index can meet the files: the order of iterdir
\* and the order of glob are not fixed.
RebuildWalks(f) ==
  {WalkOf(dirs, order, 1) :
     dirs \in Orders(ProjectDirs(f)),
     order \in {o \in [ProjectDirs(f) -> UNION {Orders(Glob(f, d)) : d \in ProjectDirs(f)}] :
                  \A d \in ProjectDirs(f) : o[d] \in Orders(Glob(f, d))}}

\* "DELETE FROM sessions", committed on its own; the events and the metadata
\* go with their sessions (ON DELETE CASCADE).
DeleteAllSessions(d) ==
  [CascadeDelete(d, {x.session_id : x \in d.sessions}) EXCEPT !.sessions = {},
                                                              !.rowids = <<>>]

\* The loop of rebuild_index over the files: a file whose index_session raises
\* is logged and skipped.  acc holds the store, the history, the files indexed
\* in the order of their indexing, and count.
RECURSIVE RebuildLoop(_, _, _)
RebuildLoop(acc, walk, f) ==
  IF walk = <<>> THEN acc
  ELSE LET p == Head(walk) IN
       Bind(index_session(acc.db, p, f[p], Db_decode_project_path(DirName(p)),
                          PathName(Db_decode_project_path(DirName(p))), 0),
            LAMBDA out :
       Bind([db |-> out.db,
             hist |-> IF out.ok THEN [acc.hist EXCEPT ![p] = Snapshot(f[p])]
                      ELSE acc.hist,
             indexed |-> IF out.ok THEN Append(acc.indexed, p) ELSE acc.indexed,
             count |-> IF out.ok THEN acc.count + 1 ELSE acc.count],
            LAMBDA acc1 : RebuildLoop(acc1, Tail(walk), f)))

\* rebuild_index(projects_dir) meeting the files in the order walk.  With
\* abortAt = Some(k) the enumeration raises once k files have been met, and
\* rebuild_index raises; with None it returns count.
rebuild_index(d, h, f, walk, abortAt) ==
  Bind(RebuildLoop([db |-> DeleteAllSessions(d), hist |-> [p \in AllPaths |-> None],
                    indexed |-> <<>>, count |-> 0],
                   IF abortAt = None THEN walk ELSE Take(walk, Val(abortAt)), f),
       LAMBDA acc : [db |-> acc.db, hist |-> acc.hist, indexed |-> acc.indexed,
                     count |-> acc.count, raised |-> abortAt # None])

\* SessionDatabase.get_indexed_session_count: SELECT COUNT(*) FROM sessions
get_indexed_session_count(d) == Cardinality(d.sessions)

\* One call of rebuild_index.
RebuildCall(walk, abortAt) ==
  \E out \in {rebuild_index(db, hist, files, walk, abortAt)} :
      /\ db' = out.db
      /\ hist' = out.hist
      /\ last' = [op |-> "rebuild", arg |-> None,
                  res |-> [count |-> out.count, indexed |-> out.indexed,
                           raised |-> out.raised,
                           met |-> IF abortAt = None THEN walk
                                   ELSE Take(walk, Val(abortAt))],
                  again |-> FALSE]
      /\ UNCHANGED <<files, w, r, cache>>

\* SessionDatabase.rebuild_index(settings.claude_projects_dir), run to its end.
Rebuild == \E walk \in RebuildWalks(files) : RebuildCall(walk, None)

\* rebuild_index with an I/O error of the enumeration after some files.
RebuildAbort ==
  \E walk \in RebuildWalks(files) :
    \E k \in 0..Len(walk) : RebuildCall(walk, Some(k))

\* The recorder of sessions at work on the files S.
DiskOn(S) ==
  \/ \E p \in S : CreateFile(p)
  \/ \E p \in S : AppendLine(p)
  \/ \E p \in S : DeleteFile(p)

\* Full rebuild and its abort over a file in /proj and a file in /my-app.
NextRebuild == DiskOn({FileA, FileD}) \/ Rebuild \/ RebuildAbort
SpecRebuild == Init /\ [][NextRebuild]_vars

\* Full rebuild, incremental sync and the staleness scan over a file in /proj
\* and a file under ".hid".
NextHidden == DiskOn({FileA, FileH}) \/ Rebuild \/ SyncIndex \/ CheckStale
SpecHidden == Init /\ [][NextHidden]_vars

(***************************************************************************)
(* session_indexer.py: the read path with its fall back to a file scan     *)
(***************************************************************************)
\* What the store does during a call: it works ("none"), the statements of
\* get_session_by_id after the first fail while those of its except branch
\* work ("query"), or no connection can be made ("down").
StoreFaults == {"none", "query", "down"}

\* SessionDatabase.get_session_by_id under a fault of the store.  The except
\* branch looks the row up again and parses its file; an error there is
\* swallowed and None is returned.
Db_get_session_by_id(d, f, session_id, include_thinking, fault) ==
  CASE fault = "none" -> get_session_by_id(d, f, session_id, include_thinking)
    [] fault = "query" ->
         IF SelectSession(d, session_id) = {} THEN None
         ELSE ParseLive(CHOOSE x \in SelectSession(d, session_id) : TRUE, f,
                        include_thinking)
    [] fault = "down" -> None

\* The files the scan of one project directory can stop at: the file named
\* <session_id>.jsonl when it exists, else any file of the directory whose
\* stem contains session_id (glob lists them in no fixed order).
DirMatches(f, project_dir, session_id) ==
  IF Exists(f, <<project_dir, session_id>>) THEN {<<project_dir, session_id>>}
  ELSE {p \in Glob(f, project_dir) : InStem(session_id, Stem(p))}

\* The files the scan of the projects directory can stop at: iterdir lists
\* the directories in no fixed order, and the first one with a match decides.
ScanMatches(f, session_id) ==
  UNION {DirMatches(f, project_dir, session_id) : project_dir \in ProjectDirs(f)}

\* get_session_detail on the file the scan stopped at; an exception of the
\* parser is not caught.
ScanParse(f, p, include_thinking) ==
  IF ParseRaises(f[p].content)
  THEN [res |-> None, raised |-> TRUE, via |-> "scan"]
  ELSE [res |-> Some(get_session_detail(p, f[p].content,
                                        Indexer_decode_project_path(DirName(p)),
                                        Indexer_get_project_name(DirName(p)),
                                        include_thinking)),
        raised |-> FALSE, via |-> "scan"]

\* SessionIndexer.get_session_by_id: the outcomes it can have.  via tells
\* which path answered.
Indexer_get_session_by_id(d, f, session_id, include_thinking, fault) ==
  LET result == Db_get_session_by_id(d, f, session_id, include_thinking, fault) IN
  IF result # None THEN {[res |-> result, raised |-> FALSE, via |-> "store"]}
  ELSE IF ScanMatches(f, session_id) = {}
  THEN {[res |-> None, raised |-> FALSE, via |-> "scan"]}
  ELSE {ScanParse(f, p, include_thinking) : p \in ScanMatches(f, session_id)}

\* The session ids asked of the read path: one carried by records, a file
\* stem that is part of another stem, and that other stem.
ScanIds == {"s1", "a", "ab"}

\* One call of SessionIndexer.get_session_by_id.
GetSessionIndexer(session_id, include_thinking, fault) ==
  \E out \in Indexer_get_session_by_id(db, files, session_id, include_thinking, fault) :
    /\ last' = [op |-> "getsession", arg |-> <<session_id, include_thinking, fault>>,
                res |-> out, again |-> FALSE]
    /\ UNCHANGED <<files, db, hist, w, r, cache>>

\* Incremental sync and the read path of SessionIndexer, asked without the
\* thinking events, over a file in /proj and a file in /my-app.
NextFallback ==
  \/ DiskOn({FileA, FileD})
  \/ SyncIndex
  \/ \E id \in ScanIds, fault \in StoreFaults : GetSessionIndexer(id, FALSE, fault)
SpecFallback == Init /\ [][NextFallback]_vars

(***************************************************************************)
(* Index Entries whose Source File is gone: incremental sync, the          *)
(* staleness scan and the read path of the store.                          *)
(***************************************************************************)
NextOrphan ==
  \/ Disk
  \/ SyncIndex
  \/ CheckStale
  \/ \E id \in SessionIds, it \in BOOLEAN : GetSession(id, it)
SpecOrphan == Init /\ [][NextOrphan]_vars

(***************************************************************************)
(* Listing sessions: SessionDatabase.get_sessions and the file scan of     *)
(* SessionIndexer.get_sessions.                                            *)
(*                                                                         *)
(* A date filter is the datetime the caller passes: its wall-clock time    *)
(* "local" and its zone, "utc" (+00:00), "east" (+01:00, one unit of time  *)
(* ahead of UTC) or "naive" (no zone: the MCP tool parses "YYYY-MM-DD"     *)
(* with datetime.fromisoformat).  The timestamps of the log records end in *)
(* "Z", so every start_time is an aware datetime in UTC.  A project filter *)
(* is a text, written like a directory name: [lead, segs].                 *)
(***************************************************************************)
DateUtc == [local |-> 2, tz |-> "utc"]
DateEast == [local |-> 3, tz |-> "east"]
DateNaive == [local |-> 2, tz |-> "naive"]

\* The instant of a datetime; a naive one is read as UTC, as _get_sort_time
\* reads it.
Instant(dt) == IF dt.tz = "east" THEN dt.local - 1 ELSE dt.local

\* datetime.isoformat() as SQLite compares it, byte by byte: the wall-clock
\* time, then the suffix "" < "+00:00" < "+01:00".
ArgIsoText(dt) ==
  [local |-> dt.local,
   suffix |-> CASE dt.tz = "naive" -> 0 [] dt.tz = "utc" -> 1 [] OTHER -> 2]
StoredIsoText(c) == [local |-> FromIsoFormat(c), suffix |-> 1]
TextLeq(x, y) == x.local < y.local \/ (x.local = y.local /\ x.suffix <= y.suffix)

\* The name of a project as a text.
NameText(project_name) == [lead |-> FALSE, segs |-> project_name]

\* The search terms of the model and where they occur: "fix" is a word of the
\* user message "fix it", "ix" a part of that word, "proj" the name of the
\* project /proj, "main" a branch, "parser.py" the file_path of the Edit tool
\* input, which is no event content.
SearchTerms == {"fix", "ix", "proj", "main", "parser.py"}

\* term in text, for the texts of events, cwd and git_branch.
StrContains(text, term) ==
  <<term, text>> \in {<<"fix", "fix it">>, <<"ix", "fix it">>, <<"main", "main">>}

\* term in project_name
NameContains(project_name, term) ==
  term = "proj" /\ \E i \in DOMAIN project_name : project_name[i] = "proj"

\* The tokens the FTS5 tokenizer (unicode61) makes of a content.
FtsTokens(content) ==
  CASE content = "fix it" -> {"fix", "it"}
    [] content = "ok" -> {"ok"}
    [] content = "hm" -> {"hm"}
    [] OTHER -> {}

\* Whether the term is a query FTS5 accepts: "parser.py" is a syntax error
\* (fts5: syntax error near ".").
FtsSyntaxOk(term) == term # "parser.py"

\* "events_fts MATCH term" for a term of one word: the word is a token.
FtsMatch(content, term) == term \in FtsTokens(content)

\* The subquery "SELECT DISTINCT session_id FROM events_fts WHERE events_fts
\* MATCH ?" raises on a syntax error, and on an index entry that matches and
\* has no events row (database disk image is malformed).
MatchRaises(d, term) ==
  ~FtsSyntaxOk(term) \/ \E c \in d.fts.dead : FtsMatch(c, term)

MatchSessions(d, term) ==
  {e.session_id : e \in {x \in d.fts.live :
                           x.content # None /\ FtsMatch(Val(x.content), term)}}

\* The WHERE clauses of project, date_from and date_to.  start_time is
\* compared as text; a NULL start_time satisfies no comparison.
FilterRows(d, project, date_from, date_to) ==
  {x \in d.sessions :
     /\ project # None => NameText(x.project_name) = Val(project)
     /\ date_from # None =>
          /\ x.start_time # None
          /\ TextLeq(ArgIsoText(Val(date_from)), StoredIsoText(x.start_time))
     /\ date_to # None =>
          /\ x.start_time # None
          /\ TextLeq(StoredIsoText(x.start_time), ArgIsoText(Val(date_to)))}

\* The WHERE clause of search for one row, when the subquery does not raise.
SearchClause(d, x, term) ==
  \/ x.session_id \in MatchSessions(d, term)
  \/ NameContains(x.project_name, term)
  \/ (x.git_branch # None /\ StrContains(Val(x.git_branch), term))
  \/ (x.cwd # None /\ StrContains(Val(x.cwd), term))

\* The position of a sessions row in the order of the rowids.
RowidPos(d, session_id) ==
  CHOOSE i \in DOMAIN d.rowids : d.rowids[i] = session_id

\* ORDER BY start_time DESC as SQLite runs it: x comes before y.  NULLs are
\* last.  With a project filter the rows are found through
\* idx_sessions_project and sorted, equal start times staying in the order of
\* their rowids; without one the rows are read backwards from
\* idx_sessions_start_time, equal start times in the reverse order of their
\* rowids.
RowBefore(d, x, y, byProject) ==
  IF x.start_time # y.start_time
  THEN /\ x.start_time # None
       /\ (y.start_time = None
             \/ FromIsoFormat(x.start_time) > FromIsoFormat(y.start_time))
  ELSE IF byProject
       THEN RowidPos(d, x.session_id) < RowidPos(d, y.session_id)
       ELSE RowidPos(d, x.session_id) > RowidPos(d, y.session_id)

\* RowBefore with equal start times always in the order of the rowids.
OrderByStartTimeDescStable(d, M, byProject) ==
  [i \in 1..Cardinality(M) |->
     CHOOSE x \in M : Cardinality({y \in M : RowBefore(d, y, x, TRUE)}) = i - 1]

OrderByStartTimeDesc(d, M, byProject) ==
  [i \in 1..Cardinality(M) |->
     CHOOSE x \in M : Cardinality({y \in M : RowBefore(d, y, x, byProject)}) = i - 1]

\* The page without its end: all[offset:], a query without LIMIT.
PageToTheEnd(all, offset, limit) ==
  SubSeq(all, offset + 1, Len(all))

\* all[offset:offset + limit] and LIMIT limit OFFSET offset, for limit >= 1.
Page(all, offset, limit) ==
  SubSeq(all, offset + 1,
         IF offset + limit < Len(all) THEN offset + limit ELSE Len(all))

\* The SessionSummary made of a sessions row.
SummaryOfRow(x) ==
  [session_id |-> x.session_id, project_path |-> x.project_path,
   project_name |-> x.project_name, file_path |-> x.file_path,
   start_time |-> FromIsoOrNone(x.start_time),
   end_time |-> FromIsoOrNone(x.end_time),
   duration_seconds |-> x.duration_seconds,
   git_branch |-> x.git_branch, cwd |-> x.cwd,
   message_count |-> x.message_count, tool_count |-> x.tool_count,
   files_modified_count |-> x.files_modified_count,
   file_size_bytes |-> x.file_size_bytes]

Raised == [raised |-> TRUE, sessions |-> <<>>, total |-> 0]

\* SessionDatabase.get_sessions.  d is the store the COUNT reads and d2 the
\* store the SELECT of the page reads: each statement is a transaction of its
\* own, and d2 differs from d when another process commits between the two.
\* The subquery of the search clause runs when a row reaches the clause.
Db_get_sessions(d, d2, project, date_from, date_to, search, offset, limit, fault) ==
  LET R == FilterRows(d, project, date_from, date_to)
      R2 == FilterRows(d2, project, date_from, date_to)
  IN  IF fault # "none" THEN Raised
      ELSE IF search # None /\ R # {} /\ MatchRaises(d, Val(search)) THEN Raised
      ELSE IF search # None /\ R2 # {} /\ MatchRaises(d2, Val(search)) THEN Raised
      ELSE LET M == IF search = None THEN R
                    ELSE {x \in R : SearchClause(d, x, Val(search))}
               M2 == IF search = None THEN R2
                     ELSE {x \in R2 : SearchClause(d2, x, Val(search))}
               rows == Page(OrderByStartTimeDesc(d2, M2, project # None),
                            offset, limit)
           IN  [raised |-> FALSE,
                sessions |-> [i \in DOMAIN rows |-> SummaryOfRow(rows[i])],
                total |-> Cardinality(M)]

\* The text of a line, lowered, holds the term (_search_in_file).
RawLineContains(kind, term) ==
  <<kind, term>> \in {<<"user", "fix">>, <<"user", "ix">>,
                      <<"edit", "main">>, <<"edit", "parser.py">>}

\* _search_in_file(file_path, search_term)
search_in_file(f, path, term) ==
  /\ Exists(f, path)
  /\ \E i \in DOMAIN f[path].content : RawLineContains(f[path].content[i], term)

\* The directories _scan_sessions scans: the one named by the project filter,
\* if it exists, or every directory whose name does not start with ".".
ScanDirs(f, project) ==
  IF project # None THEN {Val(project)} \cap {DirName(p) : p \in Rglob(f)}
  ELSE ProjectDirs(f)

\* _scan_sessions: the summaries of the files of walk, in its order, without
\* the files whose parse raises.
RECURSIVE ScanSummaries(_, _)
ScanSummaries(f, walk) ==
  IF walk = <<>> THEN <<>>
  ELSE LET p == Head(walk) IN
       (IF ParseRaises(f[p].content) THEN <<>>
        ELSE << get_session_summary(p, f[p].content,
                                    Indexer_decode_project_path(DirName(p)),
                                    Indexer_get_project_name(DirName(p))) >>)
       \o ScanSummaries(f, Tail(walk))

\* The orders in which _scan_sessions can meet the files (iterdir, glob).
ScanWalks(f, project) ==
  Orders(UNION {Glob(f, dir) : dir \in ScanDirs(f, project)})

\* "s.start_time >= date_from" raises TypeError for an aware start_time and a
\* naive date_from.
CompareRaises(all, dt) ==
  dt.tz = "naive" /\ \E i \in DOMAIN all : all[i].start_time # None

\* The search filter of the file scan for one summary.
ScanSearch(f, s, term) ==
  \/ NameContains(s.project_name, term)
  \/ (s.cwd # None /\ StrContains(Val(s.cwd), term))
  \/ (s.git_branch # None /\ StrContains(Val(s.git_branch), term))
  \/ search_in_file(f, s.file_path, term)

\* x comes before y in all_sessions.sort(key=_get_sort_time, reverse=True):
\* a later start first, no start time last.
SortsBefore(x, y) ==
  /\ x.start_time # None
  /\ (y.start_time = None \/ Val(x.start_time) > Val(y.start_time))

\* list.sort(reverse=True) is stable: equal keys stay in the order of the list.
SortByStartTime(all) ==
  LET before(i, j) == SortsBefore(all[i], all[j])
                        \/ (~SortsBefore(all[j], all[i]) /\ i < j)
  IN  [k \in DOMAIN all |->
         all[CHOOSE i \in DOMAIN all :
               Cardinality({j \in DOMAIN all : before(j, i)}) = k - 1]]

\* The filters of the file scan on the list _scan_sessions returned: the list
\* to cache, or the TypeError of a comparison.
ScanFilter(f, scanned, date_from, date_to, search) ==
  IF date_from # None /\ CompareRaises(scanned, Val(date_from))
  THEN [raised |-> TRUE, all |-> <<>>]
  ELSE Bind(IF date_from = None THEN scanned
            ELSE SelectSeq(scanned, LAMBDA s :
                   s.start_time # None
                   /\ Val(s.start_time) >= Instant(Val(date_from))),
            LAMBDA a1 :
       IF date_to # None /\ CompareRaises(a1, Val(date_to))
       THEN [raised |-> TRUE, all |-> <<>>]
       ELSE [raised |-> FALSE,
             all |-> SelectSeq(a1, LAMBDA s :
                       /\ date_to # None =>
                            /\ s.start_time # None
                            /\ Val(s.start_time) <= Instant(Val(date_to))
                       /\ search # None => ScanSearch(f, s, Val(search)))])

CacheKey(project, date_from, date_to, search) ==
  <<project, date_from, date_to, search>>

CacheHit(c, key) == \E e \in c : e.key = key

CacheGet(c, key) == (CHOOSE e \in c : e.key = key).all

CachePut(c, key, all) == {e \in c : e.key # key} \cup {[key |-> key, all |-> all]}

\* The file scan of SessionIndexer.get_sessions ("Fallback: Original TTLCache
\* approach"): the outcomes it can have and the cache each leaves.
ScanSessions(f, c, project, date_from, date_to, search, offset, limit) ==
  LET key == CacheKey(project, date_from, date_to, search)
      answer(all, c1) ==
        LET sorted == SortByStartTime(all) IN
        [raised |-> FALSE, sessions |-> Page(sorted, offset, limit),
         total |-> Len(sorted), via |-> "scan",
         cache |-> CachePut(c1, key, sorted)]
  IN  IF CacheHit(c, key) THEN {answer(CacheGet(c, key), c)}
      ELSE {Bind(ScanFilter(f, ScanSummaries(f, walk), date_from, date_to, search),
                 LAMBDA flt :
                   IF flt.raised
                   THEN [raised |-> TRUE, sessions |-> <<>>, total |-> 0,
                         via |-> "scan", cache |-> c]
                   ELSE answer(flt.all, c)) :
              walk \in ScanWalks(f, project)}

\* SessionIndexer.get_sessions: the store if there is one and its query does
\* not raise, else the file scan.
Indexer_get_sessions(d, f, c, project, date_from, date_to, search, offset, limit, fault) ==
  Bind(Db_get_sessions(d, d, project, date_from, date_to, search, offset, limit,
                       fault),
       LAMBDA out :
         IF fault # "down" /\ ~out.raised
         THEN {[raised |-> FALSE, sessions |-> out.sessions, total |-> out.total,
                via |-> "store", cache |-> c]}
         ELSE ScanSessions(f, c, project, date_from, date_to, search, offset,
                           limit))

\* A call of SessionIndexer.get_sessions.
GetSessions(project, date_from, date_to, search, offset, limit, fault) ==
  /\ \E out \in Indexer_get_sessions(db, files, cache, project, date_from,
                                     date_to, search, offset, limit, fault) :
       /\ last' = [op |-> "list",
                   arg |-> [project |-> project, date_from |-> date_from,
                            date_to |-> date_to, search |-> search,
                            offset |-> offset, limit |-> limit, fault |-> fault],
                   res |-> [raised |-> out.raised, sessions |-> out.sessions,
                            total |-> out.total, via |-> out.via,
                            raced |-> FALSE],
                   again |-> FALSE]
       /\ Cardinality(out.cache) <= MaxCached
       /\ cache' = out.cache
  /\ UNCHANGED <<files, db, hist, w, r>>

\* An entry of the cache expires (ttl = settings.cache_ttl_seconds).  The
\* cache never holds maxsize entries here.
ExpireCache ==
  /\ \E e \in cache : cache' = cache \ {e}
  /\ last' = NoCall
  /\ UNCHANGED <<files, db, hist, w, r>>

\* A call of SessionDatabase.get_sessions whose page is read from the store
\* d2.
QueryCall(d2, project, date_from, date_to, search, offset, limit) ==
  \E out \in {Db_get_sessions(db, d2, project, date_from, date_to, search,
                              offset, limit, "none")} :
    last' = [op |-> "query",
             arg |-> [project |-> project, date_from |-> date_from,
                      date_to |-> date_to, search |-> search,
                      offset |-> offset, limit |-> limit, fault |-> "none"],
             res |-> [raised |-> out.raised, sessions |-> out.sessions,
                      total |-> out.total, via |-> "store",
                      raced |-> d2 # db],
             again |-> FALSE]

\* A call of SessionDatabase.get_sessions with nothing committed meanwhile.
QuerySessions(project, date_from, date_to, search, offset, limit) ==
  /\ QueryCall(db, project, date_from, date_to, search, offset, limit)
  /\ UNCHANGED <<files, db, hist, w, r, cache>>

\* A call of SessionDatabase.get_sessions in one process while another
\* process indexes the file p: its index_session commits after the COUNT and
\* before the SELECT of the page.
QuerySessionsRaced(p, project, date_from, date_to, search, offset, limit) ==
  \E ix \in {index_session(db, p, files[p],
                           Indexer_decode_project_path(DirName(p)),
                           Indexer_get_project_name(DirName(p)), 0)} :
    /\ ix.ok
    /\ ix.db # db
    /\ QueryCall(ix.db, project, date_from, date_to, search, offset, limit)
    /\ db' = ix.db
    /\ hist' = [hist EXCEPT ![p] = Snapshot(files[p])]
    /\ UNCHANGED <<files, w, r, cache>>

\* clear_index with "DELETE FROM sessions" replaced by the removal of the
\* Source Files.
ClearIndexDeletesFiles ==
  /\ files' = [p \in AllPaths |->
                 IF files[p].state = "present"
                 THEN [files[p] EXCEPT !.state = "deleted"] ELSE files[p]]
  /\ last' = [op |-> "clear", arg |-> None, res |-> None, again |-> FALSE]
  /\ UNCHANGED <<db, hist, w, r, cache>>

\* SessionDatabase.clear_index
ClearIndex ==
  /\ db' = DeleteAllSessions(db)
  /\ last' = [op |-> "clear", arg |-> None, res |-> None, again |-> FALSE]
  /\ UNCHANGED <<files, hist, w, r, cache>>

\* SessionIndexer.repair_fts5_if_needed: False without a store; with one it
\* calls self.db.repair_fts5_if_needed(), which SessionDatabase does not
\* define, and the AttributeError leaves the method.
repair_fts5_if_needed(d, fault) ==
  IF fault = "down" THEN [raised |-> FALSE, result |-> FALSE, db |-> d]
  ELSE [raised |-> TRUE, result |-> FALSE, db |-> d]

RepairFts(fault) ==
  /\ \E out \in {repair_fts5_if_needed(db, fault)} :
       /\ db' = out.db
       /\ last' = [op |-> "repair", arg |-> fault,
                   res |-> [raised |-> out.raised, result |-> out.result,
                            before |-> db],
                   again |-> FALSE]
  /\ UNCHANGED <<files, hist, w, r, cache>>

\* The recorder of sessions writing the files of S and deleting none.
RecordOn(S) ==
  \/ \E p \in S : CreateFile(p)
  \/ \E p \in S : AppendLine(p)

\* A project filter that is the name of the project /proj; ProjDir is its
\* directory name.
NameArg == [lead |-> FALSE, segs |-> <<"proj">>]

\* The store query with its filters, each alone and all together.
QueryFilters ==
  {<<None, None, None, None>>,
   <<Some(NameArg), None, None, None>>,
   <<None, Some(DateEast), None, None>>,
   <<None, None, Some(DateNaive), None>>,
   <<None, None, None, Some("fix")>>,
   <<None, None, None, Some("ix")>>,
   <<Some(NameArg), Some(DateUtc), Some(DateEast), Some("fix")>>}

NextQuery ==
  \/ RecordOn(Paths)
  \/ SyncIndex
  \/ \E flt \in QueryFilters, page \in {<<0, 2>>, <<1, 1>>} :
       QuerySessions(flt[1], flt[2], flt[3], flt[4], page[1], page[2])
SpecQuery == Init /\ [][NextQuery]_vars

\* Pages of the store query and of the file scan.
NextPage ==
  \/ \E p \in Paths : CreateAt(p, {0})
  \/ \E p \in Paths : AppendOf(p, {"user", "tool"})
  \/ SyncIndex
  \/ \E project \in {None, Some(NameArg)}, offset \in 0..2, limit \in 1..2 :
       QuerySessions(project, None, None, None, offset, limit)
  \/ \E p \in Paths, page \in {<<0, 1>>, <<0, 2>>, <<1, 1>>} :
       QuerySessionsRaced(p, None, None, None, None, page[1], page[2])
  \/ \E offset \in 0..2, limit \in 1..2 :
       GetSessions(None, None, None, None, offset, limit, "query")
  \/ ExpireCache
SpecPage == Init /\ [][NextPage]_vars

\* The store query and the file scan on the same call.
ListFilters ==
  {<<None, None, None>>,
   <<Some(NameArg), None, None>>,
   <<Some(ProjDir), None, None>>,
   <<None, Some(DateUtc), None>>,
   <<None, Some(DateNaive), None>>,
   <<None, None, Some("ix")>>}

NextList ==
  \/ DiskOn({FileA})
  \/ SyncIndex
  \/ \E flt \in ListFilters, fault \in {"none", "query", "down"} :
       GetSessions(flt[1], flt[2], None, flt[3], 0, 2, fault)
  \/ ExpireCache
SpecList == Init /\ [][NextList]_vars

\* The search structure through re-indexing, clearing and repair.
NextRepair ==
  \/ Disk
  \/ SyncIndex
  \/ ClearIndex
  \/ \E fault \in {"none", "down"} : RepairFts(fault)
SpecRepair == Init /\ [][NextRepair]_vars

\* Every operation of the engine beside the recorder of sessions.
NextFrame ==
  \/ DiskOn({FileA})
  \/ IndexSession(FileA)
  \/ SyncIndex
  \/ Rebuild
  \/ ClearIndex
  \/ CheckStale
  \/ \E id \in {"s1", "a"} : GetSession(id, FALSE)
  \/ \E search \in {None, Some("fix")}, fault \in {"none", "query"} :
       GetSessions(None, None, None, search, 0, 2, fault)
SpecFrame == Init /\ [][NextFrame]_vars


(***************************************************************************)
(* The parser alone: one Source File whose lines are any of the kinds,     *)
(* lines json.loads rejects included, parsed with and without thinking.    *)
(***************************************************************************)
MaxLines == 3

AllLineKinds ==
  LineKinds \cup {"garbage", "queue", "read", "bash", "glob", "write"}

ContentsOf(kinds, n) == UNION {[1..k -> kinds] : k \in 0..n}
Contents(n) == ContentsOf(AllLineKinds, n)

InitParse ==
  /\ \E c \in Contents(MaxLines) :
       files = [p \in AllPaths |->
                  IF p = FileA
                  THEN [state |-> "present", mtime |-> 0, content |-> c]
                  ELSE NoFile]
  /\ db = EmptyDb
  /\ last = NoCall
  /\ hist = [p \in AllPaths |-> None]
  /\ w = WriterIdle
  /\ r = ReaderIdle
  /\ cache = {}

\* parser.get_session_detail(file_path, project_path, project_name,
\* include_thinking): the detail it returns, or the exception it lets through.
GetSessionDetail(p, include_thinking) ==
  /\ files[p].state = "present"
  /\ \E out \in {IF ParseRaises(files[p].content)
                 THEN [raised |-> TRUE, detail |-> None]
                 ELSE [raised |-> FALSE,
                       detail |-> Some(get_session_detail(p, files[p].content,
                                    Indexer_decode_project_path(DirName(p)),
                                    Indexer_get_project_name(DirName(p)),
                                    include_thinking))]} :
       last' = [op |-> "parse", arg |-> <<p, include_thinking>>, res |-> out,
                again |-> FALSE]
  /\ UNCHANGED <<files, db, hist, w, r, cache>>

\* parser.get_session_summary(file_path, project_path, project_name): the
\* summary it returns, or the exception it lets through.
GetSessionSummary(p) ==
  /\ files[p].state = "present"
  /\ \E out \in {IF ParseRaises(files[p].content)
                 THEN [raised |-> TRUE, summary |-> None]
                 ELSE [raised |-> FALSE,
                       summary |-> Some(get_session_summary(p, files[p].content,
                                    Indexer_decode_project_path(DirName(p)),
                                    Indexer_get_project_name(DirName(p))))]} :
       last' = [op |-> "summary", arg |-> p, res |-> out, again |-> FALSE]
  /\ UNCHANGED <<files, db, hist, w, r, cache>>

NextParse ==
  \/ \E it \in BOOLEAN : GetSessionDetail(FileA, it)
  \/ GetSessionSummary(FileA)
  \/ IndexSession(FileA)
SpecParse == InitParse /\ [][NextParse]_vars

\* The parser on the lines of a short conversation: a user message, an
\* assistant message that announces and makes an edit, the result of the tool.
ScenarioKinds == {"lets", "ill", "result", "plan", "edit"}

InitScenario ==
  /\ \E c \in ContentsOf(ScenarioKinds, MaxLines) :
       files = [p \in AllPaths |->
                  IF p = FileA
                  THEN [state |-> "present", mtime |-> 0, content |-> c]
                  ELSE NoFile]
  /\ db = EmptyDb
  /\ last = NoCall
  /\ hist = [p \in AllPaths |-> None]
  /\ w = WriterIdle
  /\ r = ReaderIdle
  /\ cache = {}

NextScenario ==
  \/ \E it \in BOOLEAN : GetSessionDetail(FileA, it)
  \/ GetSessionSummary(FileA)
SpecScenario == InitScenario /\ [][NextScenario]_vars


(***************************************************************************)
(* Claims.                                                                 *)
(***************************************************************************)
EntriesOfFile(d, p) == {x \in d.sessions : x.file_path = p}
HasEntry(d, p) == EntriesOfFile(d, p) # {}

\* A modification time in ticks is later than a recorded whole second.
LaterThan(mtime, file_mtime) == mtime > file_mtime * TicksPerSec

NoDuplicates(q) == \A i, j \in DOMAIN q : i # j => q[i] # q[j]

\* C1 (as claimed): a scan lists every indexed Source File whose content
\* changed and whose modification time advanced since index_session read it,
\* and does not list an indexed file that is as index_session read it.
C1_StalenessDetected ==
  last.op = "scan" =>
    \A p \in Paths :
      (hist[p] # None /\ HasEntry(db, p) /\ Exists(files, p)) =>
        /\ (/\ files[p].content # Val(hist[p]).content
            /\ files[p].mtime > Val(hist[p]).mtime) => p \in Range(last.res)
        /\ Snapshot(files[p]) = hist[p] => p \notin Range(last.res)

\* C2 (as claimed): a run of _sync_index that follows another run with no
\* change on disk in between finds no candidate and indexes no file.
C2_SyncConverges ==
  (last.op = "sync" /\ last.again) =>
    (last.res.candidates = <<>> /\ last.res.indexed = {})

\* C10 (as claimed): a scan returns, each once, exactly the files that have an
\* Index Entry, exist and have a modification time later than the recorded
\* indexed_mtime, and the files found under the root that have no Index Entry.
C10_ScanResult ==
  last.op = "scan" =>
    /\ NoDuplicates(last.res)
    /\ Range(last.res) =
         {p \in Paths :
            \/ /\ Exists(files, p)
               /\ \E x \in EntriesOfFile(db, p) : LaterThan(files[p].mtime, x.file_mtime)
            \/ Exists(files, p) /\ ~HasEntry(db, p)}


\* The events of a record, thinking events aside.
NoThinking(events) == SelectSeq(events, LAMBDA e : e.type # "thinking")

\* The rows the store holds for a session after index_session wrote detail.
EventRowsOf(session_id, detail) ==
  [i \in DOMAIN detail.events |-> EventRow(session_id, detail.events[i])]

\* C4 (as claimed): a getSession that finds an Index Entry whose file has a live
\* modification time later than the recorded indexed_mtime returns the direct
\* parse of the live file and leaves the store as it was.
C4_StaleReadBypass ==
  [][last'.op = "get" =>
       LET session_id == last'.arg[1]
           include_thinking == last'.arg[2]
       IN  \A x \in SelectSession(db, session_id) :
             (/\ Exists(files, x.file_path)
              /\ LaterThan(files[x.file_path].mtime, x.file_mtime))
             => /\ last'.res = ParseLive(x, files, include_thinking)
                /\ db' = db]_vars

\* C5 (as claimed): get_session_by_id on a file unchanged since index_session
\* read it returns the events of the parse, in order and field by field
\* (thinking events aside), and the parse's files modified, files read, tools
\* used, phases and decisions.
C5_RoundTrip ==
  last.op = "get" =>
    \A x \in SelectSession(db, last.arg[1]) :
      (Exists(files, x.file_path) /\ hist[x.file_path] = Snapshot(files[x.file_path]))
      => /\ last.res # None
         /\ LET got == Val(last.res)
                parsed == get_session_detail(x.file_path, files[x.file_path].content,
                                             x.project_path, x.project_name, FALSE)
            IN  /\ NoThinking(got.events) = parsed.events
                /\ got.files_modified = parsed.files_modified
                /\ got.files_read = parsed.files_read
                /\ got.tools_used = parsed.tools_used
                /\ got.phases = parsed.phases
                /\ got.decisions = parsed.decisions

\* C6: a call of index_session that follows a call of index_session on the same
\* file, with no change on disk in between, leaves the store as the first call
\* left it: the same sessions rows, the same metadata and, session by session,
\* the same events in the same order.
C6_Idempotent ==
  [][(last'.op = "index" /\ last'.again) =>
       /\ db'.sessions = db.sessions
       /\ db'.metadata = db.metadata
       /\ \A session_id \in SessionIds :
            SelectEvents(db', session_id) = SelectEvents(db, session_id)
       /\ Len(db'.events) = Len(db.events)]_vars

\* C6 witness: the second of two calls has run on a file with events.
C6_Witness ==
  /\ last.op = "index" /\ last.again
  /\ \E x \in EntriesOfFile(db, last.arg) : SelectEvents(db, x.session_id) # <<>>

\* C7 (as claimed): after index_session re-indexed a file whose content
\* changed, the store holds for the session exactly the events and metadata of
\* the new parse, and indexed_mtime is the file's modification time.
C7_UpsertReplaces ==
  (last.op = "index" /\ last.res.ok /\ last.res.changed) =>
    LET path == last.arg
        detail == get_session_detail(path, files[path].content,
                                     Indexer_decode_project_path(DirName(path)),
                                     Indexer_get_project_name(DirName(path)), FALSE)
    IN  \E x \in EntriesOfFile(db, path) :
          /\ SelectEvents(db, x.session_id) = EventRowsOf(x.session_id, detail)
          /\ SelectMetadata(db, x.session_id) = {MetadataRow(x.session_id, detail)}
          /\ x.file_mtime * TicksPerSec = files[path].mtime

\* C9: a call of index_session that raises, whether the parser raised or the
\* database did after some statements of the transaction, leaves the store
\* exactly as it was.
C9_FailedPutChangesNothing ==
  [][(last'.op = "index" /\ ~last'.res.ok) => db' = db]_vars

\* C9 witness: index_session raised after it had written the session row and
\* deleted the events of a file that has an Index Entry with events.
C9_Witness ==
  /\ last.op = "index" /\ ~last.res.ok /\ last.res.failAt > 2
  /\ \E x \in EntriesOfFile(db, last.arg) : SelectEvents(db, x.session_id) # <<>>

\* Every field of the session row of a file but the recorded modification
\* time is the one index_session writes for the content.
RowReflects(x, path, content) ==
  x = SessionRow(get_session_summary(path, content,
                                     Indexer_decode_project_path(DirName(path)),
                                     Indexer_get_project_name(DirName(path))),
                 path, x.file_mtime)

\* C3 (as claimed): when index_session has indexed a file that was appended
\* to during the call, the Index Entry is the one of the file's final
\* content, or the file's modification time is later than the recorded
\* indexed_mtime.
C3_NoSilentDivergence ==
  (last.op = "index" /\ last.res.ok /\ last.res.raced /\ Exists(files, last.arg)) =>
    LET path == last.arg
        detail == get_session_detail(path, files[path].content,
                                     Indexer_decode_project_path(DirName(path)),
                                     Indexer_get_project_name(DirName(path)), FALSE)
    IN  \E x \in EntriesOfFile(db, path) :
          \/ /\ RowReflects(x, path, files[path].content)
             /\ SelectEvents(db, x.session_id) = EventRowsOf(x.session_id, detail)
             /\ SelectMetadata(db, x.session_id) = {MetadataRow(x.session_id, detail)}
          \/ LaterThan(files[path].mtime, x.file_mtime)

\* C8 (as claimed): a get_session_by_id that answers from the store while
\* index_session commits returns a complete entry of the session, one the
\* store held at some moment of the call: the entry before a commit or the
\* entry after it.
C8_AtomicPutForReaders ==
  (r.pc = "done" /\ r.via = "store") => r.res \in r.views

\* The Index Entries whose Source File is not on disk.
Orphans(d, f) == {x \in d.sessions : ~Exists(f, x.file_path)}

\* C11 (as claimed): an Index Entry whose Source File no longer exists is not
\* listed by a scan, is left in the store (row, events and metadata) by a scan
\* and by a run of _sync_index, and a get_session_by_id for its session
\* returns None.
C11_OrphanKept ==
  [][\A x \in Orphans(db, files) :
       /\ last'.op = "scan" => x.file_path \notin Range(last'.res)
       /\ last'.op \in {"scan", "sync"} =>
            /\ x \in db'.sessions
            /\ SelectEvents(db', x.session_id) = SelectEvents(db, x.session_id)
            /\ SelectMetadata(db', x.session_id) = SelectMetadata(db, x.session_id)
       /\ (last'.op = "get" /\ last'.arg[1] = x.session_id) => last'.res = None]_vars

\* C12 (as claimed): when rebuild_index returns, the number it returns is the
\* number of sessions get_indexed_session_count finds in the store.
C12_RebuildCount ==
  (last.op = "rebuild" /\ ~last.res.raised) =>
    get_indexed_session_count(db) = last.res.count

\* The store holding only the Index Entry _sync_index writes for the file p.
SyncEntry(p) ==
  index_session(EmptyDb, p, files[p], Indexer_decode_project_path(DirName(p)),
                Indexer_get_project_name(DirName(p)), 0).db

\* C13 (as claimed): the Index Entry rebuild_index has written for a file is
\* the one _sync_index writes for the same file: the same session row
\* (session id, project path, project name and the rest), the same events and
\* the same metadata.
C13_RebuildAsSync ==
  last.op = "rebuild" =>
    \A i \in DOMAIN last.res.indexed :
      \A x \in EntriesOfFile(db, last.res.indexed[i]) :
        /\ x \in SyncEntry(x.file_path).sessions
        /\ SelectEvents(db, x.session_id) = SyncEntry(x.file_path).events
        /\ SelectMetadata(db, x.session_id) = SyncEntry(x.file_path).metadata

\* C14 (as claimed): whatever rebuilds and syncs have run, the store holds no
\* Index Entry for a file of a directory whose name begins with ".", and a
\* scan lists no such file.
C14_DotDirsIgnored ==
  /\ \A x \in db.sessions : ~StartsWithDot(DirName(x.file_path))
  /\ last.op = "scan" =>
       \A i \in DOMAIN last.res : ~StartsWithDot(DirName(last.res[i]))

\* The row x of sessions and the events and metadata of its session are the
\* complete Index Entry rebuild_index writes for the file of x as it is on
\* disk.
CompleteRebuildEntry(d, f, x) ==
  LET path == x.file_path
      project_path == Db_decode_project_path(DirName(path))
      detail == get_session_detail(path, f[path].content, project_path,
                                   PathName(project_path), FALSE)
  IN  /\ x = SessionRow(get_session_summary(path, f[path].content, project_path,
                                            PathName(project_path)),
                        path, IntMtime(f[path].mtime))
      /\ SelectEvents(d, x.session_id) = EventRowsOf(x.session_id, detail)
      /\ SelectMetadata(d, x.session_id) = {MetadataRow(x.session_id, detail)}

\* C15 (as claimed): when rebuild_index raises because the enumeration of the
\* files failed, the store holds an Index Entry for exactly the files indexed
\* before the failure, and each of them is complete.
C15_AbortKeepsProgress ==
  (last.op = "rebuild" /\ last.res.raised) =>
    /\ {x.file_path : x \in db.sessions} = Range(last.res.indexed)
    /\ \A x \in db.sessions : CompleteRebuildEntry(db, files, x)

\* The index_session of the candidate p raises in a run of _sync_index: the
\* parser raises on its content, or the database does.
CandidateFails(f, failAt, p) ==
  ParseRaises(f[p].content) \/ failAt[p] \in 1..FailPoints(f[p])

\* C16: in a run of _sync_index, every candidate whose index_session does not
\* fail is indexed, none that fails is, and the store after the run is the
\* store a run over the other candidates alone, in the same order, leaves: a
\* failing candidate changes no Index Entry and stops nothing.
C16_SyncIsolatesFailures ==
  [][last'.op = "sync" =>
       LET failAt == last'.arg
           candidates == last'.res.candidates
           others == SelectSeq(candidates, LAMBDA p : ~CandidateFails(files, failAt, p))
       IN  /\ last'.res.indexed = Range(others)
           /\ db' = SyncLoop([db |-> db, hist |-> hist, indexed |-> {}], others,
                             [p \in AllPaths |-> 0]).db]_vars

\* C16 witness: a run with two candidates, the first of which failed on a
\* database error after its session row was written, has indexed the second.
C16_Witness ==
  /\ last.op = "sync"
  /\ Len(last.res.candidates) = 2
  /\ last.arg[last.res.candidates[1]] > 1
  /\ last.res.indexed = {last.res.candidates[2]}
  /\ HasEntry(db, last.res.candidates[2])

\* An event without its identifier: its kind, its time and its payload.
Unnumbered(events) ==
  [i \in DOMAIN events |->
     [type |-> events[i].type, timestamp |-> events[i].timestamp,
      content |-> events[i].content, tool_name |-> events[i].tool_name,
      tool_id |-> events[i].tool_id]]

\* The file of the row x is on disk, can be parsed, and the call reads it or
\* an entry that is up to date: the file is as index_session read it, or its
\* modification time is seen as later than the recorded one.
ReadsCurrent(x) ==
  /\ Exists(files, x.file_path)
  /\ ~ParseRaises(files[x.file_path].content)
  /\ \/ hist[x.file_path] = Snapshot(files[x.file_path])
     \/ IsStale(IntMtime(files[x.file_path].mtime), x.file_mtime)

\* C17: get_session_by_id(id, include_thinking=False) returns no thinking
\* event, and returns the other events of the session, those of the parse of
\* its file with the thinking events, in their order and with their kinds and
\* payloads.
C17_ThinkingFilter ==
  (last.op = "get" /\ ~last.arg[2]) =>
    \A x \in SelectSession(db, last.arg[1]) :
      ReadsCurrent(x) =>
        /\ last.res # None
        /\ \A i \in DOMAIN Val(last.res).events :
             Val(last.res).events[i].type # "thinking"
        /\ Unnumbered(Val(last.res).events) =
             Unnumbered(NoThinking(get_session_detail(
                 x.file_path, files[x.file_path].content, x.project_path,
                 x.project_name, TRUE).events))

\* C17 witness: a session with one thinking event and two other events was
\* read from the store without the thinking events, and two events came back.
C17_Witness ==
  /\ last.op = "get" /\ ~last.arg[2] /\ last.res # None
  /\ Len(Val(last.res).events) = 2
  /\ \E x \in SelectSession(db, last.arg[1]) :
       /\ Exists(files, x.file_path)
       /\ hist[x.file_path] = Snapshot(files[x.file_path])
       /\ files[x.file_path].content = <<"edit">>

\* C18 (as claimed): the events get_session_by_id returns without the thinking
\* events are, identifier by identifier, the non-thinking events it returns for
\* the same session, in the same state, with the thinking events.
C18_SameIdentifiers ==
  (last.op = "get" /\ ~last.arg[2] /\ last.res # None) =>
    LET with == get_session_by_id(db, files, last.arg[1], TRUE) IN
    /\ with # None
    /\ [i \in DOMAIN Val(last.res).events |-> Val(last.res).events[i].id]
         = [i \in DOMAIN NoThinking(Val(with).events) |->
              NoThinking(Val(with).events)[i].id]

\* The Source Files of a session id: the files of the project directories
\* whose Session Record carries the id.
SourceFilesOf(f, session_id) ==
  {p \in AllPaths :
     /\ Exists(f, p) /\ ~StartsWithDot(DirName(p)) /\ ~ParseRaises(f[p].content)
     /\ get_session_detail(p, f[p].content, <<>>, <<>>, FALSE).session_id = session_id}

\* C19 (as claimed): a call of SessionIndexer.get_session_by_id during which
\* the store fails raises only after the file scan was tried, and returns the
\* direct parse of a Source File of the session id when there is one.
C19_FallbackBeforeFailure ==
  (last.op = "getsession" /\ last.arg[3] # "none") =>
    /\ last.res.raised => last.res.via = "scan"
    /\ SourceFilesOf(files, last.arg[1]) # {} =>
         /\ ~last.res.raised
         /\ last.res.res \in
              {ScanParse(files, p, last.arg[2]).res : p \in SourceFilesOf(files, last.arg[1])}

\* C20 (as claimed): a call of SessionIndexer.get_session_by_id for a session
\* id that no Index Entry carries, that is no Source File's session id and no
\* file's name, returns None and does not raise.
C20_NotFoundIsNone ==
  (/\ last.op = "getsession"
   /\ SelectSession(db, last.arg[1]) = {}
   /\ SourceFilesOf(files, last.arg[1]) = {}
   /\ \A p \in AllPaths : Exists(files, p) => Stem(p) # last.arg[1])
  => (last.res.res = None /\ ~last.res.raised)


\* The events of the detail the last parse returned.
ParsedEvents == Val(last.res.detail).events

\* C29: the events of a parsed session carry the identifiers evt-1, evt-2,
\* ... in their order of appearance: strictly increasing, none repeated.
C29_IdsIncrease ==
  (last.op = "parse" /\ ~last.res.raised) =>
     /\ \A i \in DOMAIN ParsedEvents : ParsedEvents[i].id = i
     /\ \A i, j \in DOMAIN ParsedEvents :
          i < j => ParsedEvents[i].id < ParsedEvents[j].id

\* A parse with thinking that returned five events or more, tool uses among
\* them.
C29_Witness ==
  /\ last.op = "parse" /\ ~last.res.raised /\ last.arg[2]
  /\ Len(ParsedEvents) >= 5
  /\ \E i \in DOMAIN ParsedEvents : ParsedEvents[i].type = "tool_use"

\* The lines of a file that are records of the expected shape.
ValidLines(content) ==
  SelectSeq(content, LAMBDA k : RawLine(k).json = "object")

\* C30: a bad line never aborts a file: whatever lines of a file are not
\* valid JSON, or are valid JSON that is not a record, parsing does not raise
\* and returns the events of the valid lines, as if the bad lines were absent.
C30_BadLinesSkipped ==
  last.op = "parse" =>
     /\ ~last.res.raised
     /\ ParsedEvents =
          get_session_detail(last.arg[1], ValidLines(files[last.arg[1]].content),
                             Indexer_decode_project_path(DirName(last.arg[1])),
                             Indexer_get_project_name(DirName(last.arg[1])),
                             last.arg[2]).events


\* ---------------------------------------------------------------------------
\* Listing: the store query and the file scan
\* ---------------------------------------------------------------------------

IdsOf(q) == {q[i].session_id : i \in DOMAIN q}

\* Every Source File is indexed as it is, and every Index Entry has its file.
AllIndexedUnchanged ==
  /\ \A p \in AllPaths :
       Exists(files, p) => (hist[p] = Snapshot(files[p]) /\ HasEntry(db, p))
  /\ Orphans(db, files) = {}

\* The answer of the store to the arguments of the last call.
StoreAnswer ==
  Db_get_sessions(db, db, last.arg.project, last.arg.date_from,
                  last.arg.date_to, last.arg.search, last.arg.offset,
                  last.arg.limit, "none")

\* C21 (as claimed): with every Source File indexed and unchanged, a
\* get_sessions served by the file scan returns the same sessions and the same
\* total as the store query returns for the same filters.
C21_FallbackSameAsStore ==
  (last.op = "list" /\ last.res.via = "scan" /\ AllIndexedUnchanged
     /\ ~StoreAnswer.raised) =>
    /\ ~last.res.raised
    /\ IdsOf(last.res.sessions) = IdsOf(StoreAnswer.sessions)
    /\ last.res.total = StoreAnswer.total


\* The filters as the definitions of the spec state them: the project name
\* is equal, the start time is an instant within the inclusive bounds, and
\* the term is a substring of the text content of an event of the session or
\* of its project name, working directory or branch.
InDates(x, date_from, date_to) ==
  /\ date_from # None =>
       /\ x.start_time # None
       /\ Instant(Val(date_from)) <= FromIsoFormat(x.start_time)
  /\ date_to # None =>
       /\ x.start_time # None
       /\ FromIsoFormat(x.start_time) <= Instant(Val(date_to))

TermOccurs(d, x, term) ==
  \/ \E i \in DOMAIN d.events :
       /\ d.events[i].session_id = x.session_id
       /\ d.events[i].content # None
       /\ StrContains(Val(d.events[i].content), term)
  \/ NameContains(x.project_name, term)
  \/ (x.git_branch # None /\ StrContains(Val(x.git_branch), term))
  \/ (x.cwd # None /\ StrContains(Val(x.cwd), term))

Satisfying(d, a) ==
  {x \in d.sessions :
     /\ a.project # None => NameText(x.project_name) = Val(a.project)
     /\ InDates(x, a.date_from, a.date_to)
     /\ a.search # None => TermOccurs(d, x, Val(a.search))}

\* C22 (as claimed): the total of a store query is the number of Index
\* Entries that satisfy every supplied filter (project name equal, date_from
\* <= start time <= date_to, search term matching), whatever offset and limit
\* are, and every session of the page satisfies them.
C22_TotalCountsFilters ==
  (last.op = "query" /\ ~last.res.raised) =>
    /\ last.res.total = Cardinality(Satisfying(db, last.arg))
    /\ IdsOf(last.res.sessions)
         \subseteq {x.session_id : x \in Satisfying(db, last.arg)}

\* C25 (as claimed): a store query with a search term and room for every
\* session returns exactly the indexed sessions in which the term is a
\* substring of the text content of an event or of project name, working
\* directory or branch.
C25_SearchFindsSubstring ==
  (last.op = "query" /\ last.arg.search # None /\ last.arg.project = None
     /\ last.arg.date_from = None /\ last.arg.date_to = None
     /\ last.arg.offset = 0 /\ last.arg.limit >= Cardinality(db.sessions)) =>
    /\ ~last.res.raised
    /\ IdsOf(last.res.sessions)
         = {x.session_id : x \in Satisfying(db, last.arg)}


\* The start times of q are descending, and the sessions without one are last.
Descending(q) ==
  \A i, j \in DOMAIN q :
    i < j => \/ q[j].start_time = None
             \/ /\ q[i].start_time # None
                /\ Val(q[i].start_time) >= Val(q[j].start_time)

\* The n pages of the store query of arguments a that follow each other from
\* offset 0, with no store change in between.
ConsecutivePages(a, n) ==
  [k \in 1..n |->
     Db_get_sessions(db, db, a.project, a.date_from, a.date_to, a.search,
                     (k - 1) * a.limit, a.limit, "none").sessions]

\* The pages are disjoint and list every session that satisfies the filters
\* once.
PagesListOnce(a, n) ==
  LET pages == ConsecutivePages(a, n) IN
    /\ \A k \in 1..n : NoDuplicates([i \in DOMAIN pages[k] |->
                                       pages[k][i].session_id])
    /\ \A k1, k2 \in 1..n : k1 # k2 => IdsOf(pages[k1]) \cap IdsOf(pages[k2]) = {}
    /\ UNION {IdsOf(pages[k]) : k \in 1..n}
         = {x.session_id : x \in Satisfying(db, a)}

AnsweredInOne ==
  last.op \in {"query", "list"} /\ ~last.res.raised /\ ~last.res.raced

C24_PageWithinTotal ==
  (last.op \in {"query", "list"} /\ ~last.res.raised) =>
    /\ Len(last.res.sessions) <= last.arg.limit
    /\ last.arg.offset + Len(last.res.sessions) <= last.res.total

\* C24 (amended): the page has len(page) <= limit, from the store and from
\* the file scan; when nothing is committed to the store between the count
\* and the page, offset + len(page) <= total for an offset <= total, and the
\* page is empty for an offset > total.
C24_PageBounds ==
  (last.op \in {"query", "list"} /\ ~last.res.raised) =>
    /\ Len(last.res.sessions) <= last.arg.limit
    /\ ~last.res.raced =>
         IF last.arg.offset <= last.res.total
         THEN last.arg.offset + Len(last.res.sessions) <= last.res.total
         ELSE last.res.sessions = <<>>

\* A second page of one session has been returned after a first page of one.
C24_Witness ==
  /\ AnsweredInOne
  /\ last.arg.offset = 1 /\ last.arg.limit = 1
  /\ last.res.total = 2 /\ Len(last.res.sessions) = 1


\* ---------------------------------------------------------------------------
\* Source Files and the search structure
\* ---------------------------------------------------------------------------

Mirror(d) == {FtsEntry(d.events[i]) : i \in DOMAIN d.events}

\* C27 (as claimed): in every committed state of the store the search
\* structure holds one mirror row per stored event, with its content, and no
\* mirror row of an event that was deleted.
C27_SearchInLockstep ==
  /\ db.fts.live = Mirror(db)
  /\ db.fts.dead = {}

\* C28 (as claimed): repair_fts5_if_needed returns without raising; when the
\* search structure was corrupt it is, afterwards, the mirror of the stored
\* events and the result is true; the result is true only then; sessions,
\* events and metadata are as before.
C28_RepairRebuilds ==
  last.op = "repair" =>
    LET before == last.res.before
        corrupt == last.arg # "down" /\ ~(before.fts.live = Mirror(before)
                                            /\ before.fts.dead = {})
    IN /\ ~last.res.raised
       /\ corrupt => (last.res.result /\ C27_SearchInLockstep)
       /\ last.res.result => corrupt
       /\ db.sessions = before.sessions
       /\ db.events = before.events
       /\ db.metadata = before.metadata

\* The Source File p holds no valid record.
NoValidRecord(p) ==
  files[p].state = "present" /\ parse_jsonl_file(files[p].content) = <<>>

\* C31: a Source File with no valid record yields a minimal record named
\* after the file: the summary, the detail and the Index Entry carry the
\* file's stem as session identifier, with no event and no failure.
C31_EmptyFileNamedAfterFile ==
  NoValidRecord(FileA) =>
    /\ last.op = "summary" =>
         /\ ~last.res.raised
         /\ Val(last.res.summary).session_id = Stem(FileA)
         /\ Val(last.res.summary).message_count = 0
    /\ last.op = "parse" =>
         /\ ~last.res.raised
         /\ Val(last.res.detail).session_id = Stem(FileA)
         /\ Val(last.res.detail).events = <<>>
         /\ Val(last.res.detail).files_modified = {}
    /\ last.op = "index" =>
         /\ last.res.ok
         /\ \E x \in db.sessions : x.file_path = FileA /\ x.session_id = Stem(FileA)
         /\ db.events = <<>>

\* The timestamps of the events of a parsed record.
EventTimes(events) ==
  {Val(events[i].timestamp) : i \in {j \in DOMAIN events : events[j].timestamp # None}}

MinOf(S) == CHOOSE j \in S : \A k \in S : j <= k

\* The time window of rec is that of events.
TimeWindowOf(rec, events) ==
  IF EventTimes(events) = {}
  THEN rec.start_time = None /\ rec.end_time = None /\ rec.duration_seconds = None
  ELSE /\ rec.start_time = Some(MinOf(EventTimes(events)))
       /\ rec.end_time = Some(MaxOf(EventTimes(events)))
       /\ Val(rec.start_time) <= Val(rec.end_time)
       /\ rec.duration_seconds = Some(Val(rec.end_time) - Val(rec.start_time))

\* C32: in every Session Record the start time is the minimum and the end
\* time the maximum over the timestamps of the session's events; start <= end
\* and the duration is their difference; both are null when no event has a
\* timestamp.
C32_WindowOverEvents ==
  last.op = "parse" /\ ~last.res.raised =>
    TimeWindowOf(Val(last.res.detail), Val(last.res.detail).events)

\* The file_path inputs of the tool invocations named in names, over the
\* records of a file.
ToolPaths(content, names) ==
  UNION { { DictGet(RawLine(content[i]).blocks[j].input, "file_path") :
              j \in {k \in DOMAIN RawLine(content[i]).blocks :
                       /\ RawLine(content[i]).blocks[k].type = "tool_use"
                       /\ RawLine(content[i]).blocks[k].name \in names
                       /\ HasKey(RawLine(content[i]).blocks[k].input, "file_path")} } :
          i \in {k \in DOMAIN content : RawLine(content[k]).json = "object"} }

\* The first half of C33: classification by tool name, and no entry that
\* starts with "[" in either set.
ClassifiedByTool ==
  last.op = "parse" /\ ~last.res.raised =>
    LET detail == Val(last.res.detail)
        content == files[FileA].content
    IN  /\ detail.files_modified \subseteq ToolPaths(content, {"Write", "Edit"})
        /\ detail.files_read \subseteq ToolPaths(content, {"Read"})
        /\ \A f \in detail.files_modified \cup detail.files_read : ~IsPlaceholder(f)

\* C33: a path is in files-modified only if it is the file_path of a Write or
\* Edit invocation of the session and in files-read only if it is the
\* file_path of a Read invocation; what Bash, Glob and Grep yield is in
\* neither set; no entry that starts with "[" is in either set or counted in
\* files_modified_count.
C33_FilesByToolNoPlaceholder ==
  /\ ClassifiedByTool
  /\ last.op = "summary" /\ ~last.res.raised =>
       Val(last.res.summary).files_modified_count =
         Cardinality({f \in ToolPaths(files[FileA].content, {"Write", "Edit"}) :
                        ~IsPlaceholder(f)})

\* The log of the scenario: a user message "Let's fix the bug in parser.py",
\* an assistant record "I'll update parser.py" with an Edit of parser.py, and
\* the result of the tool.
ScenarioLog == <<"lets", "ill", "result">>

ScenarioParsed ==
  /\ files[FileA].content = ScenarioLog
  /\ last.op = "parse"
  /\ ~last.res.raised

StartsWith(cs, prefix) ==
  Len(cs) >= Len(prefix) /\ SubSeq(cs, 1, Len(prefix)) = prefix

\* C34 as stated: parsing the log of the scenario yields exactly 3 events,
\* files_modified = {"parser.py"} and a decision that starts with
\* "update parser.py".
C34_ThreeEventsAndDecision ==
  ScenarioParsed =>
    /\ Len(ParsedEvents) = 3
    /\ Val(last.res.detail).files_modified = {"parser.py"}
    /\ \E i \in DOMAIN Val(last.res.detail).decisions :
         StartsWith(Val(last.res.detail).decisions[i],
                    <<"u", "p", "d", "a", "t", "e", " ",
                      "p", "a", "r", "s", "e", "r", ".", "p", "y">>)

\* C34 amended: parsing the log of the scenario yields exactly 4 events (the
\* user message, the assistant text, the tool invocation, the tool result),
\* files_modified = {"parser.py"} and no decision.
C34_FourEventsNoDecision ==
  ScenarioParsed =>
    /\ [i \in DOMAIN ParsedEvents |-> ParsedEvents[i].type]
         = <<"user", "assistant", "tool_use", "tool_result">>
    /\ Val(last.res.detail).files_modified = {"parser.py"}
    /\ Val(last.res.detail).decisions = <<>>

\* The log of the scenario has been parsed and the parse returned four events.
C34_Witness == ScenarioParsed /\ Len(ParsedEvents) = 4

\* Aside: a phrase of more than 20 characters after "I'll" is a decision.
LongPhraseIsDecision ==
  files[FileA].content = <<"plan">> /\ last.op = "parse" =>
    Val(last.res.detail).decisions =
      << <<"u", "p", "d", "a", "t", "e", " ", "t", "h", "e", " ",
           "p", "a", "r", "s", "e", "r", " ", "m", "o", "d", "u", "l", "e", " ",
           "n", "o", "w", ".">> >>

(***************************************************************************)
(* The decoding of project directory names alone: an absolute project path *)
(* of at most MaxDepth components, each of at most MaxPieces pieces joined *)
(* by "-", on a disk that holds the path (or not) and some directories    *)
(* beside it.                                                              *)
(***************************************************************************)
MaxDepth == 2
MaxPieces == 2

Pieces == {"my", "app"}
Components == UNION {[1..k -> Pieces] : k \in 1..MaxPieces}
ProjectPaths == UNION {[1..k -> Components] : k \in 1..MaxDepth}

\* The directories of the path and above it.
Ancestors(path) == {SubSeq(path, 1, k) : k \in 1..Len(path)}

\* Directories that may exist beside the project.
Siblings == { << <<"my">> >>, << <<"app">> >>, << <<"my">>, <<"app">> >> }

\* The directory name of a project: "/" and "-" alike folded to "-"
\* ('/home/brett-crane/code/storycrafter' is stored as
\* '-home-brett-crane-code-storycrafter').
RECURSIVE Flatten(_)
Flatten(path) == IF path = <<>> THEN <<>> ELSE Head(path) \o Flatten(Tail(path))

Encode(path) == [lead |-> TRUE, segs |-> Flatten(path)]

\* A project path and the disk it is decoded on.
InitDecode ==
  /\ \E path \in ProjectPaths, exists \in BOOLEAN, beside \in SUBSET Siblings :
       last = [op |-> "input",
               arg |-> [path |-> path,
                        dirs |-> (IF exists THEN Ancestors(path) ELSE {})
                                   \cup UNION {Ancestors(b) : b \in beside}],
               res |-> None, again |-> FALSE]
  /\ files = [p \in AllPaths |-> NoFile]
  /\ db = EmptyDb
  /\ hist = [p \in AllPaths |-> None]
  /\ w = WriterIdle
  /\ r = ReaderIdle
  /\ cache = {}

\* SessionIndexer._decode_project_path on the directory name of the path.
DecodeProjectPath ==
  /\ last.op = "input"
  /\ last' = [last EXCEPT
                !.op = "decode",
                !.res = DecodeLoopOn(last.arg.dirs, Encode(last.arg.path).segs,
                                     1, <<>>, <<>>)]
  /\ UNCHANGED <<files, db, hist, w, r, cache>>

NextDecode == DecodeProjectPath
SpecDecode == InitDecode /\ [][NextDecode]_vars

IsPrefix(xs, ys) == Len(xs) <= Len(ys) /\ SubSeq(ys, 1, Len(xs)) = xs

\* No path of the disk spells a prefix of the name: no boundary between
\* components can be verified.
NoneVerifiable(path, dirs) ==
  \A d \in dirs : ~IsPrefix(Flatten(d), Flatten(path))

\* C35: decoding the directory name of an absolute project path that exists
\* on disk returns that path, also when a component holds "-" and when the
\* text before one of its dashes is a directory beside it; when no boundary
\* is verifiable on disk the whole name is kept as one component.
C35_DecodeRoundTrip ==
  last.op = "decode" =>
    /\ last.arg.path \in last.arg.dirs => last.res = last.arg.path
    /\ NoneVerifiable(last.arg.path, last.arg.dirs) =>
         last.res = << Flatten(last.arg.path) >>

\* The second half of C35 alone.
UnverifiableKeptWhole ==
  last.op = "decode" /\ NoneVerifiable(last.arg.path, last.arg.dirs) =>
    last.res = << Flatten(last.arg.path) >>

\* The round trip on a disk without a directory named by a proper prefix of
\* one of the path's components.
NoPrefixBeside(path, dirs) ==
  \A k \in 1..Len(path) : \A n \in 1..(Len(path[k]) - 1) :
    Append(SubSeq(path, 1, k - 1), SubSeq(path[k], 1, n)) \notin dirs

RoundTripWithoutPrefix ==
  last.op = "decode" /\ last.arg.path \in last.arg.dirs
    /\ NoPrefixBeside(last.arg.path, last.arg.dirs) => last.res = last.arg.path

(***************************************************************************)
(* The store under the calls that write it: index_session, with a database *)
(* error too, rebuild_index and clear_index, on two Source Files that      *)
(* change on disk.                                                         *)
(***************************************************************************)
NextIntegrity ==
  \/ Disk
  \/ \E p \in Paths : IndexSession(p)
  \/ IndexSessionDbError(FileA)
  \/ Rebuild
  \/ ClearIndex
SpecIntegrity == Init /\ [][NextIntegrity]_vars

\* C36: in every committed state every stored event and every metadata row
\* belongs to an existing Index Entry, there is at most one Index Entry per
\* session identifier and at most one per file path, and after clear_index the
\* store holds no entry and no event.
C36_ReferentialIntegrity ==
  /\ \A i \in DOMAIN db.events :
       \E x \in db.sessions : x.session_id = db.events[i].session_id
  /\ \A m \in db.metadata : \E x \in db.sessions : x.session_id = m.session_id
  /\ \A x, y \in db.sessions :
       (x.session_id = y.session_id \/ x.file_path = y.file_path) => x = y
  /\ last.op = "clear" => db.sessions = {} /\ db.events = <<>>

\* Two files are indexed, both with events, and the last call indexed again a
\* file whose content had changed since its entry was written.
C36_Witness ==
  /\ last.op = "index" /\ last.res.ok /\ last.res.changed
  /\ Cardinality(db.sessions) = 2
  /\ \A x \in db.sessions :
       \E i \in DOMAIN db.events : db.events[i].session_id = x.session_id

\* The event rows and the metadata rows of one session identifier.
EventsFor(d, session_id) ==
  SelectSeq(d.events, LAMBDA e : e.session_id = session_id)
MetadataFor(d, session_id) == {m \in d.metadata : m.session_id = session_id}

\* C37: index_session for one Source File never removes or alters the Index
\* Entry (session row, events, metadata, file path) created from a different
\* Source File.
C37_OtherEntriesUntouched ==
  [][last'.op = "index" =>
       \A x \in db.sessions :
         x.file_path # last'.arg =>
           /\ x \in db'.sessions
           /\ EventsFor(db', x.session_id) = EventsFor(db, x.session_id)
           /\ MetadataFor(db', x.session_id) = MetadataFor(db, x.session_id)]_vars

\* C38: for a Source File unchanged since its Index Entry was written,
\* get_session_by_id(id, include_thinking) served from the store returns the
\* event sequence that the direct parse of the file with the same
\* include_thinking returns, for both values of include_thinking.
C38_StoreAsDirectParse ==
  last.op = "get" =>
    \A x \in SelectSession(db, last.arg[1]) :
      (Exists(files, x.file_path) /\ hist[x.file_path] = Snapshot(files[x.file_path]))
      => /\ last.res # None
         /\ Val(last.res).events =
              get_session_detail(x.file_path, files[x.file_path].content,
                                 x.project_path, x.project_name, last.arg[2]).events

\* A Source File named exactly session_id, in a project directory the scan
\* visits.
NamedExactly(f, session_id) ==
  {p \in AllPaths : Exists(f, p) /\ DirName(p) \in ProjectDirs(f)
                    /\ Stem(p) = session_id}

\* C39: whenever get_session_by_id(id) returns a record, from the store or
\* from the file scan, the record's session identifier is id; and the scan
\* prefers a Source File named exactly id over one whose name contains id,
\* whatever the order in which the project directories are visited.
C39_ReturnsAskedSession ==
  (last.op = "getsession" /\ last.res.res # None) =>
    /\ Val(last.res.res).session_id = last.arg[1]
    /\ (last.res.via = "scan" /\ NamedExactly(files, last.arg[1]) # {}) =>
         Val(last.res.res).file_path \in NamedExactly(files, last.arg[1])

\* The two halves of C39 apart.
ReturnsAskedId ==
  (last.op = "getsession" /\ last.res.res # None) =>
    Val(last.res.res).session_id = last.arg[1]

ExactNamePreferred ==
  (last.op = "getsession" /\ last.res.res # None /\ last.res.via = "scan"
     /\ NamedExactly(files, last.arg[1]) # {}) =>
    Val(last.res.res).file_path \in NamedExactly(files, last.arg[1])

\* The contents a read of a Source File of the model may return.
ReadableContents == UNION {[1..k -> LineKinds] : k \in 0..MaxAppends}

\* The session row x and the stored events of its session are those of one
\* read of the file: some content gives both.
FromOneRead(d, x) ==
  \E content \in ReadableContents :
    /\ ~ParseRaises(content)
    /\ RowReflects(x, x.file_path, content)
    /\ EventsFor(d, x.session_id) =
         EventRowsOf(x.session_id,
                     get_session_detail(x.file_path, content, x.project_path,
                                        x.project_name, FALSE))

\* C40: in every committed state, also when the Source File is appended to
\* while index_session runs, the summary fields of an Index Entry agree with
\* its stored events and metadata: message_count is the number of stored user
\* and assistant events, tool_count the number of stored tool_use events,
\* files_modified_count the size of the stored files-modified set, and the
\* session identifier and the start and end times come from the same read of
\* the file as the events.
C40_EntryConsistent ==
  \A x \in db.sessions :
    /\ x.message_count =
         Len(SelectSeq(EventsFor(db, x.session_id),
                       LAMBDA e : e.type \in {"user", "assistant"}))
    /\ x.tool_count =
         Len(SelectSeq(EventsFor(db, x.session_id), LAMBDA e : e.type = "tool_use"))
    /\ \A m \in MetadataFor(db, x.session_id) :
         x.files_modified_count = Cardinality(m.files_modified_json[2])
    /\ FromOneRead(db, x)

====
